---------------------------- MODULE Spec2Model ----------------------------
(***************************************************************************)
(* A model of the GVM virtual machine (src/gvm.hpp): the dispatch loop of  *)
(* GVM::run over a code buffer, the shared memory image io, the operand    *)
(* stack and the call stack of register snapshots.                         *)
(*                                                                         *)
(* A machine word (uint64_t) is a tuple of WordBytes bytes, least          *)
(* significant first, so that arithmetic is exact modulo 2^64 and the      *)
(* little-endian memcpy of GVM::read is a copy of code bytes.              *)
(***************************************************************************)
EXTENDS Integers, Sequences, FiniteSets, TLC

(***************************************************************************)
(* Program constants (src/gvm.hpp)                                         *)
(***************************************************************************)
ERR_OK == 0
ERR_OPCODE == 1
ERR_CODESIZE == 2
ERR_DIVZERO == 3
ERR_OPLIMIT == 4
ERR_UNDERFLOW == 5
ERR_RET == 6
ERR_SEGFAULT == 7
ERR_NEGNUM == 8

OP_NOP == 0
OP_TERM == 1
OP_SET == 2
OP_JMP == 3
OP_ADD == 4
OP_SUB == 5
OP_MUL == 6
OP_DIV == 7
OP_MOD == 8
OP_OR == 9
OP_ANDL == 10
OP_XOR == 11
OP_NOT == 12
OP_SHL == 13
OP_SHR == 14
OP_INC == 15
OP_DEC == 16
OP_PUSH == 17
OP_POP == 18
OP_AND == 19
OP_HOST == 20
OP_VPUSH == 21
OP_VPOP == 22
OP_CALL == 23
OP_RET == 24
OP_JF == 25
OP_JT == 26
OP_EQ == 27
OP_NE == 28
OP_GT == 29
OP_LT == 30
OP_GE == 31
OP_LE == 32
OP_NEG == 33
OP_ORL == 34

REG_PTR == 128
SHORT_VAL == 64
MAX_SHORT_VAL == 63
STACK == 128
IO_SIZE == 1024
REG_SIZE == 8

\* sizeof(uint64_t) and the number of bits of a uint64_t
WordBytes == 8
WordBits == 64
\* the number of values of a uint8_t
ByteMod == 256

(***************************************************************************)
(* uint64_t arithmetic on little-endian byte tuples                        *)
(***************************************************************************)
\* the word whose byte i (1 = least significant) is F(i)
MkWord(F(_)) == << F(1), F(2), F(3), F(4), F(5), F(6), F(7), F(8) >>

Zero == MkWord(LAMBDA i : 0)

UINT64_MAX == MkWord(LAMBDA i : ByteMod - 1)

\* the word of a natural number below 2^31
FromNat(n) ==
    MkWord(LAMBDA i :
        IF i = 1 THEN n % ByteMod
        ELSE IF i = 2 THEN (n \div ByteMod) % ByteMod
        ELSE IF i = 3 THEN (n \div (ByteMod * ByteMod)) % ByteMod
        ELSE IF i = 4 THEN (n \div (ByteMod * ByteMod * ByteMod)) % ByteMod
        ELSE 0)

One == FromNat(1)

\* the natural number of a word below 2^24, which can be an index or an offset
ToNat(w) == w[1] + ByteMod * w[2] + ByteMod * ByteMod * w[3]

\* w < n for a natural number n below 2^24
Below(w, n) == (\A i \in 4 .. WordBytes : w[i] = 0) /\ ToNat(w) < n

IsZero(w) == w = Zero

\* the word 0 or 1 of a C++ bool
FromBool(b) == IF b THEN One ELSE Zero

\* a + b modulo 2^64: byte by byte from the least significant, with carry
WAdd(a, b) ==
    LET RECURSIVE AddFrom(_, _)
        AddFrom(i, carry) ==
            IF i > WordBytes THEN << >>
            ELSE LET s == a[i] + b[i] + carry
                 IN  << s % ByteMod >> \o AddFrom(i + 1, s \div ByteMod)
    IN  AddFrom(1, 0)

\* ~a
WCpl(a) == MkWord(LAMBDA i : (ByteMod - 1) - a[i])

\* a - b modulo 2^64
WSub(a, b) == WAdd(WAdd(a, WCpl(b)), One)

\* a < b, unsigned: decided by the most significant byte that differs
WLess(a, b) ==
    LET RECURSIVE LessFrom(_)
        LessFrom(i) ==
            IF i = 0 THEN FALSE
            ELSE IF a[i] # b[i] THEN a[i] < b[i]
            ELSE LessFrom(i - 1)
    IN  LessFrom(WordBytes)

\* a * b modulo 2^64: the columns of the schoolbook product, with carry
WMul(a, b) ==
    LET RECURSIVE ColumnSum(_, _)
        ColumnSum(k, i) ==
            IF i > k THEN 0 ELSE a[i] * b[k + 1 - i] + ColumnSum(k, i + 1)
        RECURSIVE MulFrom(_, _)
        MulFrom(k, carry) ==
            IF k > WordBytes THEN << >>
            ELSE LET s == carry + ColumnSum(k, 1)
                 IN  << s % ByteMod >> \o MulFrom(k + 1, s \div ByteMod)
    IN  MulFrom(1, 0)

\* a << 1 with bit shifted in at the bottom, modulo 2^64
ShlBit(a, bit) ==
    MkWord(LAMBDA i :
        ((2 * a[i]) % ByteMod) + (IF i = 1 THEN bit ELSE a[i - 1] \div (ByteMod \div 2)))

\* a << n for n < 64 (byte i of a is 0 outside the word)
ShlBy(a, n) ==
    LET q == n \div 8
        r == n % 8
        ByteAt(i) == IF i >= 1 /\ i <= WordBytes THEN a[i] ELSE 0
    IN  MkWord(LAMBDA i :
            ((ByteAt(i - q) * (2 ^ r)) % ByteMod) + (ByteAt(i - q - 1) \div (2 ^ (8 - r))))

\* a >> n for n < 64
ShrBy(a, n) ==
    LET q == n \div 8
        r == n % 8
        ByteAt(i) == IF i >= 1 /\ i <= WordBytes THEN a[i] ELSE 0
    IN  MkWord(LAMBDA i :
            (ByteAt(i + q) \div (2 ^ r)) + ((ByteAt(i + q + 1) * (2 ^ (8 - r))) % ByteMod))

\* << a / b, a % b >> for b # 0: long division, one bit of the dividend per
\* step, from the top bit down; qr is << quotient, remainder >> so far
DivMod(a, b) ==
    LET \* bit n (0 = least significant) of a
        BitOf(n) == (a[(n \div 8) + 1] \div (2 ^ (n % 8))) % 2
        DivStep(n, qr) ==
            LET top == qr[2][WordBytes] >= ByteMod \div 2
                r2  == ShlBit(qr[2], BitOf(n))
            IN  IF top \/ ~WLess(r2, b)
                THEN << ShlBit(qr[1], 1), WSub(r2, b) >>
                ELSE << ShlBit(qr[1], 0), r2 >>
        RECURSIVE DivFrom(_, _)
        DivFrom(n, qr) ==
            IF n < 0 THEN qr
            ELSE CHOOSE res \in { DivFrom(n - 1, x) : x \in { DivStep(n, qr) } } : TRUE
    IN  DivFrom(WordBits - 1, << Zero, Zero >>)

WDiv(a, b) == DivMod(a, b)[1]

WMod(a, b) == DivMod(a, b)[2]

RECURSIVE And8(_, _)
And8(x, y) ==
    IF x = 0 \/ y = 0 THEN 0
    ELSE (x % 2) * (y % 2) + 2 * And8(x \div 2, y \div 2)

WAnd(a, b) == MkWord(LAMBDA i : And8(a[i], b[i]))

WOr(a, b) == MkWord(LAMBDA i : a[i] + b[i] - And8(a[i], b[i]))

WXor(a, b) == MkWord(LAMBDA i : a[i] + b[i] - 2 * And8(a[i], b[i]))


(***************************************************************************)
(* Bounds of the model                                                     *)
(***************************************************************************)
\* the largest instruction limit a host passes to run
MaxLimit == 5
\* the number of calls of run a host makes on one machine
MaxRuns == 2
\* the largest operand stack a host hands to run
MaxStack == 2

(***************************************************************************)
(* State of a GVM and of its host                                          *)
(***************************************************************************)
VARIABLES
    code,          \* std::vector<uint8_t>& code
    io,            \* memory_t& io, as the function from its non-zero cells to their words
    stack,         \* std::vector<uint64_t> stack
    context,       \* std::vector<registers_t> context
    term,          \* uint64_t term
    count,         \* uint64_t count
    opcode,        \* uint8_t opcode
    hostCallback,  \* whether a HostCallback was given (FALSE: nullptr)
    limit,         \* the argument of the call of run in progress
    pc,            \* where the host and run are: "idle", "loop", "returned",
                   \* "thrown" (run left by an exception), "aborted"
    runs,          \* the number of calls of run so far
    plan,          \* the limits the host passes to its calls of run, in order
    hist,          \* history: one record per instruction dispatched
    host           \* ghost: what the host copied from the image and the machine
                   \* after calls of run, and how many calls its first machine got

gvmVars == << code, io, stack, context, term, count, opcode, hostCallback,
              limit, pc, runs, plan, hist, host >>

\* expr (src/expr.hpp): a call of expressionToGASM
VARIABLES
    expr,          \* const std::string& expr, as the sequence of its characters
    tokens,        \* std::deque<Token> tokens of exprToTokens
    queue,         \* std::deque<Token> queue of shuntingYard, then of expressionToGASM
    xstack,        \* std::vector<Token> stack of the function in progress
    ossg,          \* std::ostringstream ossg, as the sequence of the lines written
    pos,           \* the position of exprToTokens in expr, of shuntingYard in tokens
    xpc,           \* the function in progress, or how the call ended
    what,          \* the message of the exception thrown
    ub             \* ghost: back() or pop_back() was called on an empty stack

exprVars == << expr, tokens, queue, xstack, ossg, pos, xpc, what, ub >>

\* gdis (src/gdis.cpp): the invocations of the disassembler
VARIABLES
    gpc,           \* uint64_t pc of GDisassembler
    cout,          \* what the invocation in progress has written to std::cout
    gstate,        \* the invocation in progress, or how the last one ended
    files,         \* the contents of the files still to disassemble
    listed         \* ghost: the code, output and end of every invocation that ended

gdisVars == << gpc, cout, gstate, files, listed >>

vars == << gvmVars, exprVars, gdisVars >>

\* io[k] of a memory image, and the image with io[k] = w
Cell(mem, k) == IF k \in DOMAIN mem THEN mem[k] ELSE Zero

MemSet(mem, k, w) ==
    IF w = Zero THEN [j \in DOMAIN mem \ { k } |-> mem[j]]
    ELSE [j \in DOMAIN mem \cup { k } |-> IF j = k THEN w ELSE mem[j]]

PC == Cell(io, 0)

R == Cell(io, 1)

Registers(mem) == [k \in 0 .. REG_SIZE - 1 |-> Cell(mem, k)]

(***************************************************************************)
(* The machine inside one instruction: the fields an instruction changes,  *)
(* and what it did (ops: the operand values read or popped, in order;      *)
(* touched: the cells of io whose reference get handed out; faults: the    *)
(* codes assigned to term, in order; crash: the process was killed;        *)
(* thrown: an exception left run).                                         *)
(***************************************************************************)
Machine ==
    [io |-> io, stack |-> stack, context |-> context, term |-> term,
     ops |-> << >>, touched |-> {}, faults |-> << >>, crash |-> FALSE,
     thrown |-> FALSE]

SetTerm(m, e) == [m EXCEPT !.term = e, !.faults = Append(@, e)]

SetPC(m, n) == [m EXCEPT !.io = MemSet(@, 0, FromNat(n))]

SetR(m, w) == [m EXCEPT !.io = MemSet(@, 1, w)]

\* io[ref] of a reference handed out by get
Load(m, ref) == Cell(m.io, ref)

Store(m, ref, w) == [m EXCEPT !.io = MemSet(@, ref, w)]

\* GVM::get: the machine and the cell the returned reference names
Get(m, index) ==
    IF WLess(index, FromNat(IO_SIZE))
    THEN [m |-> [m EXCEPT !.touched = @ \cup {ToNat(index)}], ref |-> ToNat(index)]
    ELSE [m |-> [SetTerm(m, ERR_SEGFAULT) EXCEPT !.touched = @ \cup {1}], ref |-> 1]

\* GVM::push
Push(m, w) == [m EXCEPT !.stack = Append(@, w)]

\* pop without stack.pop_back(): the top is returned and stays
PopKeep(m) ==
    IF Len(m.stack) = 0
    THEN [m |-> [SetTerm(m, ERR_UNDERFLOW) EXCEPT !.ops = Append(@, Zero)], val |-> Zero]
    ELSE [m |-> [m EXCEPT !.ops = Append(@, m.stack[Len(m.stack)])],
          val |-> m.stack[Len(m.stack)]]

\* GVM::pop
Pop(m) ==
    IF Len(m.stack) = 0
    THEN [m |-> [SetTerm(m, ERR_UNDERFLOW) EXCEPT !.ops = Append(@, Zero)], val |-> Zero]
    ELSE [m |-> [m EXCEPT !.stack = SubSeq(@, 1, Len(@) - 1),
                          !.ops = Append(@, m.stack[Len(m.stack)])],
          val |-> m.stack[Len(m.stack)]]

\* memcpy(&val, &code[PC], v) into val = 0: the v bytes at offset at, v <= 8
CodeWord(at, v) == MkWord(LAMBDA i : IF i <= v THEN code[at + i] ELSE 0)

\* the end of GVM::read: if (regptr) val = get(val); return val
Deref(m, val, regptr) ==
    IF regptr
    THEN LET g == Get(m, val)
         IN  [m |-> [g.m EXCEPT !.ops = Append(@, Load(g.m, g.ref))],
              val |-> Load(g.m, g.ref)]
    ELSE [m |-> [m EXCEPT !.ops = Append(@, val)], val |-> val]
\* GVM::read with PC += v - 1 after the memcpy (an empty literal: a fault)
ReadShortLiteral(m, jump) ==
    IF ~Below(Cell(m.io, 0), Len(code))
    THEN { [m |-> [SetTerm(m, ERR_CODESIZE) EXCEPT !.ops = Append(@, Zero)],
             val |-> Zero] }
    ELSE LET at       == ToNat(Cell(m.io, 0))
             control  == IF jump THEN 2 ELSE code[at + 1]
             at1      == IF jump THEN at ELSE at + 1
             v        == control % (MAX_SHORT_VAL + 1)
             regptr   == (control \div REG_PTR) % 2 = 1
             shortval == (control \div SHORT_VAL) % 2 = 1
             m1       == SetPC(m, at1)
         IN  IF shortval THEN { Deref(m1, FromNat(v), regptr) }
             ELSE IF at1 + v > Len(code) \/ v = 0
             THEN { [m |-> [SetTerm(m1, ERR_CODESIZE) EXCEPT !.ops = Append(@, Zero)],
                    val |-> Zero] }
             ELSE IF v > WordBytes
             THEN { Deref(SetPC(m1, at1 + v - 1), CodeWord(at1, WordBytes), regptr),
                    [m |-> [m1 EXCEPT !.crash = TRUE], val |-> Zero] }
             ELSE { Deref(SetPC(m1, at1 + v - 1), CodeWord(at1, v), regptr) }

\* GVM::read: the possible results. A value length v above sizeof(val)
\* makes memcpy write past val (undefined behaviour): the process is killed,
\* or goes on with the low bytes in val.
Read(m, jump) ==
    IF ~Below(Cell(m.io, 0), Len(code))
    THEN { [m |-> [SetTerm(m, ERR_CODESIZE) EXCEPT !.ops = Append(@, Zero)],
             val |-> Zero] }
    ELSE LET at       == ToNat(Cell(m.io, 0))
             control  == IF jump THEN 2 ELSE code[at + 1]
             at1      == IF jump THEN at ELSE at + 1
             v        == control % (MAX_SHORT_VAL + 1)
             regptr   == (control \div REG_PTR) % 2 = 1
             shortval == (control \div SHORT_VAL) % 2 = 1
             m1       == SetPC(m, at1)
         IN  IF shortval THEN { Deref(m1, FromNat(v), regptr) }
             ELSE IF at1 + v > Len(code)
             THEN { [m |-> [SetTerm(m1, ERR_CODESIZE) EXCEPT !.ops = Append(@, Zero)],
                    val |-> Zero] }
             ELSE IF v > WordBytes
             THEN { Deref(SetPC(m1, at1 + v), CodeWord(at1, WordBytes), regptr),
                    [m |-> [m1 EXCEPT !.crash = TRUE], val |-> Zero] }
             ELSE { Deref(SetPC(m1, at1 + v), CodeWord(at1, v), regptr) }

\* op1 = read(); op2 = read();
Read2(m) ==
    UNION { { [m |-> r2.m, a |-> r1.val, b |-> r2.val] : r2 \in Read(r1.m, FALSE) } :
            r1 \in Read(m, FALSE) }

\* op2 = pop(); op1 = pop();
Pop2(m) ==
    LET p2 == Pop(m)
        p1 == Pop(p2.m)
    IN  [m |-> p1.m, a |-> p1.val, b |-> p2.val]

(***************************************************************************)
(* The values the operators of the switch compute                          *)
(***************************************************************************)
\* op1 && op2, op1 || op2, !op1
LAnd(a, b) == FromBool(~IsZero(a) /\ ~IsZero(b))

LOr(a, b) == FromBool(~IsZero(a) \/ ~IsZero(b))

LNot(a) == FromBool(IsZero(a))

WEq(a, b) == FromBool(a = b)

WNe(a, b) == FromBool(a # b)

WGt(a, b) == FromBool(WLess(b, a))

WLt(a, b) == FromBool(WLess(a, b))

WGe(a, b) == FromBool(~WLess(a, b))

WLe(a, b) == FromBool(~WLess(b, a))

\* op1 << op2 and op1 >> op2: a shift by 64 or more is undefined behaviour;
\* builds give the shift by op2 modulo 64 (x86) or 0 (a shift past the width)
WShl(a, b) ==
    IF WLess(b, FromNat(WordBits)) THEN { ShlBy(a, ToNat(b)) }
    ELSE { ShlBy(a, b[1] % WordBits), Zero }

WShr(a, b) ==
    IF WLess(b, FromNat(WordBits)) THEN { ShrBy(a, ToNat(b)) }
    ELSE { ShrBy(a, b[1] % WordBits), Zero }

(***************************************************************************)
(* The statements of the cases of the switch of GVM::run, each from a      *)
(* machine m: the machine, or the set of machines, they can leave.         *)
(***************************************************************************)
\* the destination taken as a pointer: get(get(op1)) = pop()
PopThenGetIndirect(m, index) ==
    LET p  == Pop(m)
        g1 == Get(p.m, index)
        g2 == Get(g1.m, Load(g1.m, g1.ref))
    IN  Store(g2.m, g2.ref, p.val)

\* get(op1) = pop(): pop() then get(op1)
PopThenGet(m, index) ==
    LET p == Pop(m)
        g == Get(p.m, index)
    IN  Store(g.m, g.ref, p.val)

\* get(op1) = pop(): get(op1) then pop()
GetThenPop(m, index) ==
    LET g == Get(m, index)
        p == Pop(g.m)
    IN  Store(p.m, g.ref, p.val)
\* get(get(op1) + 1) = op2; ++get(op1);
VPushStoreWriteFirst(m, ptr, w) ==
    LET g1 == Get(m, ptr)
        g2 == Get(g1.m, WAdd(Load(g1.m, g1.ref), One))
        m1 == Store(g2.m, g2.ref, w)
        g3 == Get(m1, ptr)
    IN  Store(g3.m, g3.ref, WAdd(Load(g3.m, g3.ref), One))

\* ++get(op1); get(get(op1)) = op2;
VPushStore(m, ptr, w) ==
    LET g1 == Get(m, ptr)
        m1 == Store(g1.m, g1.ref, WAdd(Load(g1.m, g1.ref), One))
        g2 == Get(m1, ptr)
        g3 == Get(g2.m, Load(g2.m, g2.ref))
    IN  Store(g3.m, g3.ref, w)

\* get(op2) = get(op1); --get(op1);
VPopLoad(m, ptr, dst) ==
    LET g1 == Get(m, ptr)
        g2 == Get(g1.m, dst)
        m1 == Store(g2.m, g2.ref, Load(g1.m, g1.ref))
        g3 == Get(m1, ptr)
    IN  Store(g3.m, g3.ref, WSub(Load(g3.m, g3.ref), One))

\* memcpy(regs.data(), &(io[0]), ...); context.push_back(regs); PC = op1;
CallEnter(m, addr) ==
    Store([m EXCEPT !.context = Append(@, Registers(m.io))], 0, addr)

\* memcpy(&(io[0]), context.back().data(), sizeof(uint64_t) * REG_SIZE)
Restore(mem, regs) ==
    LET keep == { k \in DOMAIN mem : k >= REG_SIZE }
        set  == { k \in 0 .. REG_SIZE - 1 : regs[k] # Zero }
    IN  [k \in keep \cup set |-> IF k < REG_SIZE THEN regs[k] ELSE mem[k]]

\* case OP_RET with the two statements swapped: R = op1, then the memcpy
RetLeaveRFirst(m, w) ==
    IF Len(m.context) = 0 THEN SetTerm(m, ERR_RET)
    ELSE LET regs == m.context[Len(m.context)]
         IN  [SetR(m, w) EXCEPT !.io = Restore(@, regs),
                                !.context = SubSeq(@, 1, Len(@) - 1)]
\* case OP_RET where the empty call stack still lets R = op1 happen
RetLeaveAssignsR(m, w) ==
    IF Len(m.context) = 0 THEN SetTerm(SetR(m, w), ERR_RET)
    ELSE LET regs == m.context[Len(m.context)]
         IN  SetR([m EXCEPT !.io = Restore(@, regs),
                            !.context = SubSeq(@, 1, Len(@) - 1)], w)

\* the body of case OP_RET after op1 = read()
RetLeave(m, w) ==
    IF Len(m.context) = 0 THEN SetTerm(m, ERR_RET)
    ELSE LET regs == m.context[Len(m.context)]
         IN  SetR([m EXCEPT !.io = Restore(@, regs),
                            !.context = SubSeq(@, 1, Len(@) - 1)], w)

\* if (jump) PC = read(true); without the else branch
BranchNoSkip(m, jump) ==
    IF jump THEN { Store(r.m, 0, r.val) : r \in Read(m, TRUE) } ELSE { m }

\* if (jump) PC = read(true); else PC += 2;
Branch(m, jump) ==
    IF jump THEN { Store(r.m, 0, r.val) : r \in Read(m, TRUE) }
    ELSE { Store(m, 0, WAdd(Load(m, 0), FromNat(2))) }

\* what a host callback does to the memory image before it returns: nothing
\* (example_host_function), or a store of a value into a cell
HostStores == { << >>, << 3, FromNat(7) >>, << 0, Zero >> }

(***************************************************************************)
(* GVM::run                                                                *)
(***************************************************************************)
\* the lower 7 bits of the opcodes that have a case with the STACK bit
StackCapable ==
    { OP_ADD, OP_SUB, OP_MUL, OP_DIV, OP_MOD, OP_OR, OP_ANDL, OP_XOR, OP_NOT,
      OP_SHL, OP_SHR, OP_AND, OP_JF, OP_JT, OP_EQ, OP_NE, OP_GT, OP_LT, OP_GE,
      OP_LE, OP_NEG, OP_ORL }

\* the case labels of the switch
CaseLabels == (OP_NOP .. OP_ORL) \cup { o + STACK : o \in StackCapable }

\* the loop condition without its test of term: while (PC < code.size())
LoopCondNoTerm == Below(PC, Len(code))

\* while (!term && PC < code.size())
LoopCond == term = ERR_OK /\ Below(PC, Len(code))

\* the byte the next fetch reads
NextByte == code[ToNat(PC) + 1]

\* the machine after opcode = code[PC++]
Fetched == Store(Machine, 0, WAdd(PC, One))

\* the record of an instruction in hist
HistEntry(o) ==
    [run |-> runs, at |-> ToNat(PC), opcode |-> NextByte,
     io |-> io, stack |-> stack, depth |-> Len(context),
     ops |-> o.ops, touched |-> o.touched, faults |-> o.faults,
     crash |-> o.crash, thrown |-> o.thrown]

\* the state after a case of the switch left machine o
Finish(o) ==
    /\ count' = count + 1
    /\ opcode' = NextByte
    /\ hist' = Append(hist, HistEntry(o))
    /\ pc' = IF o.crash THEN "aborted" ELSE IF o.thrown THEN "thrown" ELSE "loop"
    /\ io' = o.io
    /\ stack' = o.stack
    /\ context' = o.context
    /\ term' = o.term
    /\ UNCHANGED << code, hostCallback, limit, runs, plan, host, exprVars, gdisVars >>

\* the limit test taken as if (count++ > limit)
AtSwitchLate == pc = "loop" /\ LoopCond /\ count <= limit

\* an iteration of the loop gets to the switch:
\* while (!term && PC < code.size()) { if (++count > limit) ...
AtSwitch == pc = "loop" /\ LoopCond /\ count < limit

\* case OP_NOP
DoNop ==
    /\ AtSwitch
    /\ NextByte = OP_NOP
    /\ Finish(Fetched)
\* case OP_TERM with PC = code.size() in place of UINT64_MAX
DoTermAtEnd ==
    /\ AtSwitch
    /\ NextByte = OP_TERM
    /\ Finish(Store(Fetched, 0, FromNat(Len(code))))

\* case OP_TERM
DoTerm ==
    /\ AtSwitch
    /\ NextByte = OP_TERM
    /\ Finish(Store(Fetched, 0, UINT64_MAX))

\* case OP_SET
DoSet ==
    /\ AtSwitch
    /\ NextByte = OP_SET
    /\ \E x \in Read2(Fetched) :
         LET g == Get(x.m, x.a) IN Finish(Store(g.m, g.ref, x.b))

\* case OP_JMP
DoJmp ==
    /\ AtSwitch
    /\ NextByte = OP_JMP
    /\ \E r \in Read(Fetched, TRUE) : Finish(Store(r.m, 0, r.val))

\* case OP_ADD
DoAdd ==
    /\ AtSwitch
    /\ NextByte = OP_ADD
    /\ \E x \in Read2(Fetched) : Finish(SetR(x.m, WAdd(x.a, x.b)))

\* case OP_ADD | STACK
DoAddStack ==
    /\ AtSwitch
    /\ NextByte = OP_ADD + STACK
    /\ LET x == Pop2(Fetched) IN Finish(Push(x.m, WAdd(x.a, x.b)))

\* case OP_SUB
DoSub ==
    /\ AtSwitch
    /\ NextByte = OP_SUB
    /\ \E x \in Read2(Fetched) :
         LET m1 == SetR(x.m, WSub(x.a, x.b))
         IN  Finish(IF WLess(x.a, x.b) THEN SetTerm(m1, ERR_NEGNUM) ELSE m1)

\* case OP_SUB | STACK with the test before the push
DoSubStackTestFirst ==
    /\ AtSwitch
    /\ NextByte = OP_SUB + STACK
    /\ LET x == Pop2(Fetched)
       IN  Finish(IF WLess(x.a, x.b) THEN SetTerm(x.m, ERR_NEGNUM)
                  ELSE Push(x.m, WSub(x.a, x.b)))

\* case OP_SUB | STACK
DoSubStack ==
    /\ AtSwitch
    /\ NextByte = OP_SUB + STACK
    /\ LET x  == Pop2(Fetched)
           m1 == Push(x.m, WSub(x.a, x.b))
       IN  Finish(IF WLess(x.a, x.b) THEN SetTerm(m1, ERR_NEGNUM) ELSE m1)

\* case OP_MUL
DoMul ==
    /\ AtSwitch
    /\ NextByte = OP_MUL
    /\ \E x \in Read2(Fetched) : Finish(SetR(x.m, WMul(x.a, x.b)))

\* case OP_MUL | STACK
DoMulStack ==
    /\ AtSwitch
    /\ NextByte = OP_MUL + STACK
    /\ LET x == Pop2(Fetched) IN Finish(Push(x.m, WMul(x.a, x.b)))

\* case OP_DIV without the test of op2
DoDivUnchecked ==
    /\ AtSwitch
    /\ NextByte = OP_DIV
    /\ \E x \in Read2(Fetched) : Finish(SetR(x.m, WDiv(x.a, x.b)))

\* case OP_DIV
DoDiv ==
    /\ AtSwitch
    /\ NextByte = OP_DIV
    /\ \E x \in Read2(Fetched) :
         Finish(IF ~IsZero(x.b) THEN SetR(x.m, WDiv(x.a, x.b))
                ELSE SetTerm(x.m, ERR_DIVZERO))

\* case OP_DIV | STACK
DoDivStack ==
    /\ AtSwitch
    /\ NextByte = OP_DIV + STACK
    /\ LET x == Pop2(Fetched)
       IN  Finish(IF ~IsZero(x.b) THEN Push(x.m, WDiv(x.a, x.b))
                  ELSE SetTerm(x.m, ERR_DIVZERO))

\* case OP_MOD
DoMod ==
    /\ AtSwitch
    /\ NextByte = OP_MOD
    /\ \E x \in Read2(Fetched) :
         Finish(IF ~IsZero(x.b) THEN SetR(x.m, WMod(x.a, x.b))
                ELSE SetTerm(x.m, ERR_DIVZERO))

\* case OP_MOD | STACK
DoModStack ==
    /\ AtSwitch
    /\ NextByte = OP_MOD + STACK
    /\ LET x == Pop2(Fetched)
       IN  Finish(IF ~IsZero(x.b) THEN Push(x.m, WMod(x.a, x.b))
                  ELSE SetTerm(x.m, ERR_DIVZERO))

\* case OP_OR
DoOr ==
    /\ AtSwitch
    /\ NextByte = OP_OR
    /\ \E x \in Read2(Fetched) : Finish(SetR(x.m, WOr(x.a, x.b)))

\* case OP_OR | STACK
DoOrStack ==
    /\ AtSwitch
    /\ NextByte = OP_OR + STACK
    /\ LET x == Pop2(Fetched) IN Finish(Push(x.m, WOr(x.a, x.b)))

\* case OP_ANDL
DoAndl ==
    /\ AtSwitch
    /\ NextByte = OP_ANDL
    /\ \E x \in Read2(Fetched) : Finish(SetR(x.m, LAnd(x.a, x.b)))

\* case OP_ANDL | STACK: op2 = pop(); op1 = pop(); R = op1 && op2;
DoAndlStack ==
    /\ AtSwitch
    /\ NextByte = OP_ANDL + STACK
    /\ LET x == Pop2(Fetched) IN Finish(SetR(x.m, LAnd(x.a, x.b)))

\* case OP_XOR
DoXor ==
    /\ AtSwitch
    /\ NextByte = OP_XOR
    /\ \E x \in Read2(Fetched) : Finish(SetR(x.m, WXor(x.a, x.b)))

\* case OP_XOR | STACK
DoXorStack ==
    /\ AtSwitch
    /\ NextByte = OP_XOR + STACK
    /\ LET x == Pop2(Fetched) IN Finish(Push(x.m, WXor(x.a, x.b)))

\* case OP_NOT
DoNot ==
    /\ AtSwitch
    /\ NextByte = OP_NOT
    /\ \E r \in Read(Fetched, FALSE) : Finish(SetR(r.m, LNot(r.val)))

\* case OP_NOT | STACK
DoNotStack ==
    /\ AtSwitch
    /\ NextByte = OP_NOT + STACK
    /\ LET p == Pop(Fetched) IN Finish(Push(p.m, LNot(p.val)))

\* case OP_SHL
DoShl ==
    /\ AtSwitch
    /\ NextByte = OP_SHL
    /\ \E x \in Read2(Fetched) : \E w \in WShl(x.a, x.b) : Finish(SetR(x.m, w))

\* case OP_SHL | STACK
DoShlStack ==
    /\ AtSwitch
    /\ NextByte = OP_SHL + STACK
    /\ LET x == Pop2(Fetched) IN \E w \in WShl(x.a, x.b) : Finish(Push(x.m, w))

\* case OP_SHR
DoShr ==
    /\ AtSwitch
    /\ NextByte = OP_SHR
    /\ \E x \in Read2(Fetched) : \E w \in WShr(x.a, x.b) : Finish(SetR(x.m, w))

\* case OP_SHR | STACK
DoShrStack ==
    /\ AtSwitch
    /\ NextByte = OP_SHR + STACK
    /\ LET x == Pop2(Fetched) IN \E w \in WShr(x.a, x.b) : Finish(Push(x.m, w))

\* case OP_INC: ++get(op1);
DoInc ==
    /\ AtSwitch
    /\ NextByte = OP_INC
    /\ \E r \in Read(Fetched, FALSE) :
         LET g == Get(r.m, r.val)
         IN  Finish(Store(g.m, g.ref, WAdd(Load(g.m, g.ref), One)))

\* case OP_DEC: --get(op1);
DoDec ==
    /\ AtSwitch
    /\ NextByte = OP_DEC
    /\ \E r \in Read(Fetched, FALSE) :
         LET g == Get(r.m, r.val)
         IN  Finish(Store(g.m, g.ref, WSub(Load(g.m, g.ref), One)))

\* case OP_PUSH
DoPush ==
    /\ AtSwitch
    /\ NextByte = OP_PUSH
    /\ \E r \in Read(Fetched, FALSE) : Finish(Push(r.m, r.val))

\* case OP_POP: op1 = read(); get(op1) = pop(); the two calls of the
\* assignment are made in either order (right operand first since C++17,
\* unspecified before)
DoPop ==
    /\ AtSwitch
    /\ NextByte = OP_POP
    /\ \E r \in Read(Fetched, FALSE) :
         \E o \in { PopThenGet(r.m, r.val), GetThenPop(r.m, r.val) } : Finish(o)

\* case OP_AND
DoAnd ==
    /\ AtSwitch
    /\ NextByte = OP_AND
    /\ \E x \in Read2(Fetched) : Finish(SetR(x.m, WAnd(x.a, x.b)))

\* case OP_AND | STACK
DoAndStack ==
    /\ AtSwitch
    /\ NextByte = OP_AND + STACK
    /\ LET x == Pop2(Fetched) IN Finish(Push(x.m, WAnd(x.a, x.b)))

\* case OP_HOST: hostCallback(); an empty std::function throws
\* std::bad_function_call
DoHost ==
    /\ AtSwitch
    /\ NextByte = OP_HOST
    /\ IF ~hostCallback THEN Finish([Fetched EXCEPT !.thrown = TRUE])
       ELSE \E w \in HostStores :
                Finish(IF w = << >> THEN Fetched ELSE Store(Fetched, w[1], w[2]))

\* case OP_VPUSH
DoVPush ==
    /\ AtSwitch
    /\ NextByte = OP_VPUSH
    /\ \E x \in Read2(Fetched) : Finish(VPushStore(x.m, x.a, x.b))

\* case OP_VPOP
DoVPop ==
    /\ AtSwitch
    /\ NextByte = OP_VPOP
    /\ \E x \in Read2(Fetched) : Finish(VPopLoad(x.m, x.a, x.b))

\* case OP_CALL
DoCall ==
    /\ AtSwitch
    /\ NextByte = OP_CALL
    /\ \E r \in Read(Fetched, TRUE) : Finish(CallEnter(r.m, r.val))

\* case OP_RET
DoRet ==
    /\ AtSwitch
    /\ NextByte = OP_RET
    /\ \E r \in Read(Fetched, FALSE) : Finish(RetLeave(r.m, r.val))

\* case OP_JF
DoJf ==
    /\ AtSwitch
    /\ NextByte = OP_JF
    /\ \E r \in Read(Fetched, FALSE) : \E o \in Branch(r.m, IsZero(r.val)) : Finish(o)

\* case OP_JF | STACK
DoJfStack ==
    /\ AtSwitch
    /\ NextByte = OP_JF + STACK
    /\ LET p == Pop(Fetched) IN \E o \in Branch(p.m, IsZero(p.val)) : Finish(o)

\* case OP_JT
DoJt ==
    /\ AtSwitch
    /\ NextByte = OP_JT
    /\ \E r \in Read(Fetched, FALSE) : \E o \in Branch(r.m, ~IsZero(r.val)) : Finish(o)

\* case OP_JT | STACK
DoJtStack ==
    /\ AtSwitch
    /\ NextByte = OP_JT + STACK
    /\ LET p == Pop(Fetched) IN \E o \in Branch(p.m, ~IsZero(p.val)) : Finish(o)

\* case OP_EQ
DoEq ==
    /\ AtSwitch
    /\ NextByte = OP_EQ
    /\ \E x \in Read2(Fetched) : Finish(SetR(x.m, WEq(x.a, x.b)))

\* case OP_EQ | STACK
DoEqStack ==
    /\ AtSwitch
    /\ NextByte = OP_EQ + STACK
    /\ LET x == Pop2(Fetched) IN Finish(Push(x.m, WEq(x.a, x.b)))

\* case OP_NE
DoNe ==
    /\ AtSwitch
    /\ NextByte = OP_NE
    /\ \E x \in Read2(Fetched) : Finish(SetR(x.m, WNe(x.a, x.b)))

\* case OP_NE | STACK
DoNeStack ==
    /\ AtSwitch
    /\ NextByte = OP_NE + STACK
    /\ LET x == Pop2(Fetched) IN Finish(Push(x.m, WNe(x.a, x.b)))

\* case OP_GT
DoGt ==
    /\ AtSwitch
    /\ NextByte = OP_GT
    /\ \E x \in Read2(Fetched) : Finish(SetR(x.m, WGt(x.a, x.b)))

\* case OP_GT | STACK
DoGtStack ==
    /\ AtSwitch
    /\ NextByte = OP_GT + STACK
    /\ LET x == Pop2(Fetched) IN Finish(Push(x.m, WGt(x.a, x.b)))

\* case OP_LT
DoLt ==
    /\ AtSwitch
    /\ NextByte = OP_LT
    /\ \E x \in Read2(Fetched) : Finish(SetR(x.m, WLt(x.a, x.b)))

\* case OP_LT | STACK
DoLtStack ==
    /\ AtSwitch
    /\ NextByte = OP_LT + STACK
    /\ LET x == Pop2(Fetched) IN Finish(Push(x.m, WLt(x.a, x.b)))

\* case OP_GE
DoGe ==
    /\ AtSwitch
    /\ NextByte = OP_GE
    /\ \E x \in Read2(Fetched) : Finish(SetR(x.m, WGe(x.a, x.b)))

\* case OP_GE | STACK
DoGeStack ==
    /\ AtSwitch
    /\ NextByte = OP_GE + STACK
    /\ LET x == Pop2(Fetched) IN Finish(Push(x.m, WGe(x.a, x.b)))

\* case OP_LE
DoLe ==
    /\ AtSwitch
    /\ NextByte = OP_LE
    /\ \E x \in Read2(Fetched) : Finish(SetR(x.m, WLe(x.a, x.b)))

\* case OP_LE | STACK
DoLeStack ==
    /\ AtSwitch
    /\ NextByte = OP_LE + STACK
    /\ LET x == Pop2(Fetched) IN Finish(Push(x.m, WLe(x.a, x.b)))

\* case OP_NEG
DoNeg ==
    /\ AtSwitch
    /\ NextByte = OP_NEG
    /\ \E r \in Read(Fetched, FALSE) : Finish(SetR(r.m, WCpl(r.val)))

\* case OP_NEG | STACK
DoNegStack ==
    /\ AtSwitch
    /\ NextByte = OP_NEG + STACK
    /\ LET p == Pop(Fetched) IN Finish(Push(p.m, WCpl(p.val)))

\* case OP_ORL
DoOrl ==
    /\ AtSwitch
    /\ NextByte = OP_ORL
    /\ \E x \in Read2(Fetched) : Finish(SetR(x.m, LOr(x.a, x.b)))

\* case OP_ORL | STACK
DoOrlStack ==
    /\ AtSwitch
    /\ NextByte = OP_ORL + STACK
    /\ LET x == Pop2(Fetched) IN Finish(Push(x.m, LOr(x.a, x.b)))
\* default: with an operand decoded before term = ERR_OPCODE;
DoDefaultDecodes ==
    /\ AtSwitch
    /\ NextByte \notin CaseLabels
    /\ \E r \in Read(Fetched, FALSE) : Finish(SetTerm(r.m, ERR_OPCODE))

\* default: term = ERR_OPCODE;
DoDefault ==
    /\ AtSwitch
    /\ NextByte \notin CaseLabels
    /\ Finish(SetTerm(Fetched, ERR_OPCODE))

\* the limit tested after the fetch: opcode = code[PC++]; if (++count > limit)
OpLimitFetches ==
    /\ pc = "loop"
    /\ LoopCond
    /\ ~(count < limit)
    /\ count' = count + 1
    /\ term' = ERR_OPLIMIT
    /\ pc' = "returned"
    /\ opcode' = NextByte
    /\ io' = Fetched.io
    /\ UNCHANGED << code, stack, context, hostCallback, limit, runs, plan, hist,
                    host, exprVars, gdisVars >>

\* if (++count > limit) { term = ERR_OPLIMIT; break; }
OpLimit ==
    /\ pc = "loop"
    /\ LoopCond
    /\ ~(count < limit)
    /\ count' = count + 1
    /\ term' = ERR_OPLIMIT
    /\ pc' = "returned"
    /\ UNCHANGED << code, io, stack, context, opcode, hostCallback, limit, runs, plan, hist,
                    host, exprVars, gdisVars >>

\* the loop condition fails: run returns
LoopExit ==
    /\ pc = "loop"
    /\ ~LoopCond
    /\ pc' = "returned"
    /\ UNCHANGED << code, io, stack, context, term, count, opcode, hostCallback,
                    limit, runs, plan, hist, host, exprVars, gdisVars >>

(***************************************************************************)
(* The inputs: code buffers in the encoding GVM::read decodes, memory      *)
(* images, operand stacks and limits a host hands to a machine.            *)
(***************************************************************************)
\* an operand whose value 0..63 is in its control byte; with REG_PTR: io[n]
Short(n) == << SHORT_VAL + n >>

AtShort(n) == << REG_PTR + SHORT_VAL + n >>

\* an operand whose control byte counts the value bytes that follow
Lit(bytes) == << Len(bytes) >> \o bytes

AtLit(bytes) == << REG_PTR + Len(bytes) >> \o bytes

\* a jump target: two bytes, no control byte
Addr(n) == << n % ByteMod, n \div ByteMod >>

Bytes1024 == << 0, 4 >>

Operands ==
    { Short(0), Short(5), AtShort(3), Lit(Bytes1024), AtLit(Bytes1024),
      Lit(<< 255, 255, 255, 255, 255, 255, 255, 255 >>) }

Targets == { 0, 3, 65535 }

\* one instruction of every register form, with every pair of operands: the
\* opcodes with two, one and no inline operand, and bytes that have no case
RegInstructions ==
    LET Inline2 ==
            { OP_SET, OP_ADD, OP_SUB, OP_MUL, OP_DIV, OP_MOD, OP_OR, OP_ANDL, OP_XOR,
              OP_SHL, OP_SHR, OP_AND, OP_VPUSH, OP_VPOP, OP_EQ, OP_NE, OP_GT, OP_LT,
              OP_GE, OP_LE, OP_ORL }
        Inline1 == { OP_NOT, OP_INC, OP_DEC, OP_PUSH, OP_POP, OP_RET, OP_NEG }
        NoCase  == { OP_ORL + 1, STACK - 1, OP_NOP + STACK, OP_PUSH + STACK,
                     OP_ORL + 1 + STACK }
    IN  { << op >> \o a \o b : op \in Inline2, a \in Operands, b \in Operands }
        \cup { << op >> \o a : op \in Inline1, a \in Operands }
        \cup { << op >> \o a \o Addr(t) :
                 op \in { OP_JF, OP_JT }, a \in Operands, t \in Targets }
        \cup { << op >> \o Addr(t) : op \in { OP_JMP, OP_CALL }, t \in Targets }
        \cup { << op >> : op \in { OP_NOP, OP_TERM, OP_HOST } \cup NoCase }

\* one instruction of every stack form and POP, run on every stack
StackInstructions ==
    { << op + STACK >> : op \in StackCapable \ { OP_JF, OP_JT } }
    \cup { << op + STACK >> \o Addr(t) : op \in { OP_JF, OP_JT }, t \in Targets }
    \cup { << OP_POP >> \o a : a \in Operands }

\* PUSH v; POP k
PushPops == { << OP_PUSH >> \o v \o << OP_POP >> \o k : v \in Operands, k \in Operands }

\* VPUSH ptr, v and VPOP ptr, dst on the cells of the vectors of VectorImage
VectorInstructions ==
    { << op >> \o Short(ptr) \o b :
        op \in { OP_VPUSH, OP_VPOP }, ptr \in { 1, 3, 5, 6 },
        b \in { Short(2), Short(5), Short(7), AtShort(3) } }

\* an instruction cut short: the code buffer ends inside it
Prefixes(p) == { SubSeq(p, 1, n) : n \in 0 .. Len(p) }

PairInstructions ==
    { << OP_PUSH >> \o Short(5), << OP_PUSH >> \o Short(0), << OP_PUSH >> \o AtShort(3),
      << OP_POP >> \o Short(3), << OP_POP >> \o AtShort(3), << OP_POP >> \o Lit(Bytes1024),
      << OP_ADD + STACK >>, << OP_SUB + STACK >>, << OP_DIV + STACK >>,
      << OP_ANDL + STACK >>, << OP_NOT + STACK >>,
      << OP_JF + STACK >> \o Addr(0), << OP_JT >> \o Short(5) \o Addr(0),
      << OP_JT + STACK >> \o Addr(0), << OP_JF >> \o Lit(Bytes1024) \o Addr(0),
      << OP_SET >> \o Short(3) \o Short(5), << OP_SET >> \o Short(0) \o Short(0),
      << OP_INC >> \o Short(3), << OP_DEC >> \o Short(3),
      << OP_VPUSH >> \o Short(3) \o Short(5), << OP_VPOP >> \o Short(3) \o Short(5),
      << OP_CALL >> \o Addr(3), << OP_CALL >> \o Addr(0),
      << OP_RET >> \o Short(0), << OP_RET >> \o Short(5), << OP_RET >> \o AtShort(3),
      << OP_JMP >> \o Addr(0), << OP_JMP >> \o Addr(3),
      << OP_NOP >>, << OP_TERM >>, << OP_HOST >>, << OP_ORL + 1 >> }

\* PUSH 7; PUSH 5; ADD|STACK; POP dst; TERM
SumProgram(dst) ==
    << OP_PUSH >> \o Short(7) \o << OP_PUSH >> \o Short(5) \o << OP_ADD + STACK >>
    \o << OP_POP >> \o dst \o << OP_TERM >>

\* CALL L; TERM; L: SET 3, 5; INC 2; RET @3
CallProgram ==
    << OP_CALL >> \o Addr(4) \o << OP_TERM >>
    \o << OP_SET >> \o Short(3) \o Short(5) \o << OP_INC >> \o Short(2)
    \o << OP_RET >> \o AtShort(3)

\* PUSH of a literal with 9 value bytes; NOP
LongProgram == << OP_PUSH, 9, 1, 2, 3, 4, 5, 6, 7, 8, 9, OP_NOP >>

\* HOST; INC 3; JMP 0
HostProgram == << OP_HOST, OP_INC >> \o Short(3) \o << OP_JMP >> \o Addr(0)

Scenarios ==
    { SumProgram(AtShort(3)), SumProgram(Short(3)), CallProgram, LongProgram, HostProgram }

\* the image of k cells with the words of the tuple cells, 0 elsewhere
Image(cells) == [k \in { j \in 0 .. Len(cells) - 1 : cells[j + 1] # Zero } |-> cells[k + 1]]

\* std::memset(&(io[0]), 0, sizeof(uint64_t) * IO_SIZE)
ZeroImage == Image(<< >>)

\* an image with R = 9 and two vectors: the length cell io[3] = 5 with its
\* top element io[5] = 6, the length cell io[6] = 1023 (a full vector)
VectorImage ==
    Image(<< Zero, FromNat(9), Zero, FromNat(5), Zero, FromNat(6), FromNat(IO_SIZE - 1) >>)

Images == { ZeroImage, VectorImage }

\* the operand stacks of up to MaxStack words
Stacks == UNION { [1 .. n -> { Zero, FromNat(5), UINT64_MAX }] : n \in 0 .. MaxStack }

\* the limits a host passes to its up to MaxRuns calls of run: none, a
\* short one, the largest
Plans == UNION { [1 .. n -> { 0, 2, MaxLimit }] : n \in 1 .. MaxRuns }

\* what term, count and opcode hold before the first call of run: the
\* constructors leave them uninitialized
Uninit == { 0, 171 }

Input(c, image, s, p, cb, junk) ==
    [code |-> c, io |-> image, stack |-> s, plan |-> p, hostCallback |-> cb, junk |-> junk]

Inputs ==
    { Input(c, image, s, << MaxLimit >>, TRUE, 0) :
        c \in UNION { Prefixes(i) : i \in RegInstructions },
        image \in Images, s \in { << >>, << FromNat(7) >> } }
    \cup { Input(c, image, s, << MaxLimit >>, TRUE, 0) :
        c \in StackInstructions, image \in Images, s \in Stacks }
    \cup { Input(c, image, << >>, << MaxLimit >>, TRUE, 0) :
        c \in VectorInstructions, image \in Images }
    \cup { Input(c, image, s, << MaxLimit >>, TRUE, 0) :
        c \in PushPops, image \in Images, s \in Stacks }
    \cup { Input(i1 \o i2, ZeroImage, << >>, p, TRUE, 0) :
        i1 \in PairInstructions, i2 \in PairInstructions,
        p \in { << l >> : l \in 0 .. MaxLimit } }
    \cup { Input(c, ZeroImage, << >>, p, TRUE, 0) : c \in Scenarios, p \in Plans }
    \cup { Input(c, ZeroImage, << >>, << MaxLimit >>, cb, junk) :
        c \in Scenarios, cb \in BOOLEAN, junk \in Uninit }

\* the host has copied nothing and has built one machine
NothingKept == [seen |-> << >>, first |-> 0]

\* no call of expressionToGASM is in progress
ExprIdle ==
    /\ expr = << >> /\ tokens = << >> /\ queue = << >> /\ xstack = << >> /\ ossg = << >>
    /\ pos = 0 /\ xpc = "idle" /\ what = "" /\ ub = FALSE

\* gdis is not invoked
GdisIdle == gpc = 0 /\ cout = "" /\ gstate = "idle" /\ files = << >> /\ listed = << >>

\* a machine as constructed: GVM(io, code) or GVM(io, code, hostCallback)
Init ==
    \E inp \in Inputs :
        /\ code = inp.code
        /\ io = inp.io
        /\ stack = inp.stack
        /\ context = << >>
        /\ term = inp.junk
        /\ count = inp.junk
        /\ opcode = inp.junk
        /\ hostCallback = inp.hostCallback
        /\ limit = 0
        /\ pc = "idle"
        /\ runs = 0
        /\ plan = inp.plan
        /\ hist = << >>
        /\ host = NothingKept
        /\ ExprIdle
        /\ GdisIdle

\* the host calls run(limit): term = ERR_OK; count = 0;
RunCall ==
    /\ pc \in { "idle", "returned" }
    /\ runs < Len(plan)
    /\ limit' = plan[runs + 1]
    /\ runs' = runs + 1
    /\ term' = ERR_OK
    /\ count' = 0
    /\ pc' = "loop"
    /\ UNCHANGED << code, io, stack, context, opcode, hostCallback, plan, hist, host,
                    exprVars, gdisVars >>

Next ==
    \/ RunCall
    \/ OpLimit
    \/ LoopExit
    \/ DoNop
    \/ DoTerm
    \/ DoSet
    \/ DoJmp
    \/ DoAdd
    \/ DoAddStack
    \/ DoSub
    \/ DoSubStack
    \/ DoMul
    \/ DoMulStack
    \/ DoDiv
    \/ DoDivStack
    \/ DoMod
    \/ DoModStack
    \/ DoOr
    \/ DoOrStack
    \/ DoAndl
    \/ DoAndlStack
    \/ DoXor
    \/ DoXorStack
    \/ DoNot
    \/ DoNotStack
    \/ DoShl
    \/ DoShlStack
    \/ DoShr
    \/ DoShrStack
    \/ DoInc
    \/ DoDec
    \/ DoPush
    \/ DoPop
    \/ DoAnd
    \/ DoAndStack
    \/ DoHost
    \/ DoVPush
    \/ DoVPop
    \/ DoCall
    \/ DoRet
    \/ DoJf
    \/ DoJfStack
    \/ DoJt
    \/ DoJtStack
    \/ DoEq
    \/ DoEqStack
    \/ DoNe
    \/ DoNeStack
    \/ DoGt
    \/ DoGtStack
    \/ DoLt
    \/ DoLtStack
    \/ DoGe
    \/ DoGeStack
    \/ DoLe
    \/ DoLeStack
    \/ DoNeg
    \/ DoNegStack
    \/ DoOrl
    \/ DoOrlStack
    \/ DoDefault

Spec == Init /\ [][Next]_vars

(***************************************************************************)
(* expr: expressionToGASM of src/expr.hpp, one action per iteration of its *)
(* loops. A character is a string of length 1, "" the terminating NUL.     *)
(* back() and pop_back() of an empty std::vector are undefined: the        *)
(* process is killed, or goes on as if the vector were still empty.        *)
(***************************************************************************)
\* the characters isdigit accepts, by value
DigitChars == << "0", "1", "2", "3", "4", "5", "6", "7", "8", "9" >>

\* Token::Token
Token(type, s, precedence, rightAssociative, unary) ==
    [type |-> type, str |-> s, precedence |-> precedence,
     rightAssociative |-> rightAssociative, unary |-> unary]

\* throw std::runtime_error(msg), which no function of expr.hpp catches
Throw(msg) ==
    /\ xpc' = "thrown"
    /\ what' = msg
    /\ UNCHANGED << expr, tokens, queue, xstack, ossg, pos, ub >>
\* the switch (c) of exprToTokens with a prefix - taken as a unary operator
OperatorAtUnaryMinus(c, c2, prefix) ==
    LET Is(t, precedence, unary, opsz) ==
            [t |-> t, precedence |-> precedence, unary |-> unary, opsz |-> opsz,
             throws |-> ""]
        Throws(msg) == [Is("Unknown", -1, FALSE, 1) EXCEPT !.throws = msg]
    IN  CASE c = "(" -> Is("LeftParen", -1, FALSE, 1)
          [] c = ")" -> Is("RightParen", -1, FALSE, 1)
          [] c = "^" -> Is("Operator", 4, FALSE, 1)
          [] c \in { "*", "/", "%" } -> Is("Operator", 10, FALSE, 1)
          [] c = "+" -> Is("Operator", 9, FALSE, 1)
          [] c = "-" -> IF prefix THEN Is("Operator", 11, TRUE, 1)
                        ELSE Is("Operator", 9, FALSE, 1)
          [] c = "~" -> IF prefix THEN Is("Operator", 11, TRUE, 1)
                        ELSE Throws("ERROR: ~ is not a binary operator")
          [] c = "&" -> IF c2 = "&" THEN Is("Operator", 2, FALSE, 2)
                        ELSE Is("Operator", 5, FALSE, 1)
          [] c = "|" -> IF c2 = "|" THEN Is("Operator", 3, FALSE, 2)
                        ELSE Is("Operator", 3, FALSE, 1)
          [] c = "<" -> IF c2 = "<" THEN Is("Operator", 8, FALSE, 2)
                        ELSE IF c2 = "=" THEN Is("Operator", 7, FALSE, 2)
                        ELSE Is("Operator", 7, FALSE, 1)
          [] c = ">" -> IF c2 = ">" THEN Is("Operator", 8, FALSE, 2)
                        ELSE IF c2 = "=" THEN Is("Operator", 7, FALSE, 2)
                        ELSE Is("Operator", 7, FALSE, 1)
          [] c = "=" -> IF c2 = "=" THEN Is("Operator", 6, FALSE, 2)
                        ELSE Is("Unknown", -1, FALSE, 1)
          [] c = "!" -> IF c2 = "=" THEN Is("Operator", 6, FALSE, 2)
                        ELSE IF prefix THEN Is("Operator", 11, TRUE, 1)
                        ELSE Throws("ERROR: ! is not a binary operator")
          [] OTHER -> Is("Unknown", -1, FALSE, 1)

\* the switch (c) of exprToTokens on the character c followed by c2, where
\* prefix says that tokens is empty or ends with an operator or a left paren
OperatorAt(c, c2, prefix) ==
    LET Is(t, precedence, unary, opsz) ==
            [t |-> t, precedence |-> precedence, unary |-> unary, opsz |-> opsz,
             throws |-> ""]
        Throws(msg) == [Is("Unknown", -1, FALSE, 1) EXCEPT !.throws = msg]
    IN  CASE c = "(" -> Is("LeftParen", -1, FALSE, 1)
          [] c = ")" -> Is("RightParen", -1, FALSE, 1)
          [] c = "^" -> Is("Operator", 4, FALSE, 1)
          [] c \in { "*", "/", "%" } -> Is("Operator", 10, FALSE, 1)
          [] c = "+" -> Is("Operator", 9, FALSE, 1)
          [] c = "-" -> IF prefix THEN Throws("ERROR: - is not a unary operator")
                        ELSE Is("Operator", 9, FALSE, 1)
          [] c = "~" -> IF prefix THEN Is("Operator", 11, TRUE, 1)
                        ELSE Throws("ERROR: ~ is not a binary operator")
          [] c = "&" -> IF c2 = "&" THEN Is("Operator", 2, FALSE, 2)
                        ELSE Is("Operator", 5, FALSE, 1)
          [] c = "|" -> IF c2 = "|" THEN Is("Operator", 3, FALSE, 2)
                        ELSE Is("Operator", 3, FALSE, 1)
          [] c = "<" -> IF c2 = "<" THEN Is("Operator", 8, FALSE, 2)
                        ELSE IF c2 = "=" THEN Is("Operator", 7, FALSE, 2)
                        ELSE Is("Operator", 7, FALSE, 1)
          [] c = ">" -> IF c2 = ">" THEN Is("Operator", 8, FALSE, 2)
                        ELSE IF c2 = "=" THEN Is("Operator", 7, FALSE, 2)
                        ELSE Is("Operator", 7, FALSE, 1)
          [] c = "=" -> IF c2 = "=" THEN Is("Operator", 6, FALSE, 2)
                        ELSE Is("Unknown", -1, FALSE, 1)
          [] c = "!" -> IF c2 = "=" THEN Is("Operator", 6, FALSE, 2)
                        ELSE IF prefix THEN Is("Operator", 11, TRUE, 1)
                        ELSE Throws("ERROR: ! is not a binary operator")
          [] OTHER -> Is("Unknown", -1, FALSE, 1)

\* exprToTokens: one iteration of for (p = expr.c_str(); *p; ++p)
LexChar ==
    /\ xpc = "exprToTokens"
    /\ pos <= Len(expr)
    /\ UNCHANGED << gvmVars, gdisVars >>
    /\ LET c  == expr[pos]
           c2 == IF pos < Len(expr) THEN expr[pos + 1] ELSE ""
           isdigit(i) == i <= Len(expr) /\ expr[i] \in { DigitChars[d] : d \in DOMAIN DigitChars }
           \* while (isdigit(*p)) ++p; from position b
           Digits(b) == CHOOSE e \in b .. Len(expr) + 1 :
                            ~isdigit(e) /\ \A k \in b .. e - 1 : isdigit(k)
           k  == OperatorAt(c, c2, \/ tokens = << >>
                                   \/ tokens[Len(tokens)].type \in { "Operator", "LeftParen" })
           Lexed(token, next) ==
               /\ tokens' = Append(tokens, token)
               /\ pos' = next
               /\ UNCHANGED << expr, queue, xstack, ossg, xpc, what, ub >>
       IN  IF c \in { " ", "\t" }
           THEN pos' = pos + 1 /\ UNCHANGED << expr, tokens, queue, xstack, ossg, xpc, what, ub >>
           ELSE IF c = "@"
           THEN Lexed(Token("Register", SubSeq(expr, pos + 1, Digits(pos + 1) - 1),
                            -1, FALSE, FALSE), Digits(pos + 1))
           ELSE IF isdigit(pos)
           THEN Lexed(Token("Number", SubSeq(expr, pos, Digits(pos) - 1), -1, FALSE, FALSE),
                      Digits(pos))
           ELSE IF k.throws # ""
           THEN Throw(k.throws)
           ELSE Lexed(Token(k.t, IF k.opsz = 1 THEN << c >> ELSE << c, c2 >>,
                            k.precedence, FALSE, k.unary), pos + k.opsz)

\* return tokens; then shuntingYard(tokens) starts
LexEnd ==
    /\ xpc = "exprToTokens"
    /\ pos > Len(expr)
    /\ UNCHANGED << gvmVars, gdisVars >>
    /\ xpc' = "shuntingYard"
    /\ pos' = 1
    /\ UNCHANGED << expr, tokens, queue, xstack, ossg, what, ub >>

\* the process is killed, or goes on with the empty stack
Undefined(goesOn) ==
    /\ ub' = TRUE
    /\ \/ xpc' = "aborted" /\ UNCHANGED << expr, tokens, queue, xstack, ossg, pos, what >>
       \/ goesOn

\* the tokens popped off stack s down to its element k, top first
Popped(s, k) == [i \in 1 .. Len(s) - k |-> s[Len(s) + 1 - i]]

\* shuntingYard: one iteration of for (auto token : tokens)
YardToken ==
    /\ xpc = "shuntingYard"
    /\ pos <= Len(tokens)
    /\ UNCHANGED << gvmVars, gdisVars >>
    /\ LET token == tokens[pos]
           Pops(o1, o2) ==
               \/ ~o1.rightAssociative /\ o1.precedence <= o2.precedence
               \/ o1.rightAssociative /\ o1.precedence < o2.precedence
           \* where the while loops stop: the topmost element the operator
           \* does not pop, the topmost left paren (0: the stack runs empty)
           kept == CHOOSE k \in 0 .. Len(xstack) :
                       /\ k > 0 => ~Pops(token, xstack[k])
                       /\ \A j \in k + 1 .. Len(xstack) : Pops(token, xstack[j])
           left == CHOOSE k \in 0 .. Len(xstack) :
                       /\ k > 0 => xstack[k].type = "LeftParen"
                       /\ \A j \in k + 1 .. Len(xstack) : xstack[j].type # "LeftParen"
           Step(q, s) ==
               /\ queue' = q
               /\ xstack' = s
               /\ pos' = pos + 1
               /\ UNCHANGED << expr, tokens, ossg, xpc, what >>
       IN  CASE token.type \in { "Register", "Number" } ->
                    Step(Append(queue, token), xstack) /\ ub' = ub
             [] token.type = "Operator" ->
                    /\ Step(queue \o Popped(xstack, kept),
                            Append(SubSeq(xstack, 1, kept), token))
                    /\ ub' = ub
             [] token.type = "LeftParen" ->
                    Step(queue, Append(xstack, token)) /\ ub' = ub
             [] token.type = "RightParen" ->
                    IF left > 0
                    THEN /\ Step(queue \o Popped(xstack, left), SubSeq(xstack, 1, left - 1))
                         /\ ub' = ub
                    ELSE IF xstack = << >>
                    THEN Throw("ERROR: RightParen error")
                    ELSE Undefined(Step(queue \o Popped(xstack, 0), << >>))
             [] OTHER -> Throw("ERROR: (token): ")     \* followed by token.str

\* shuntingYard: the loop after the last token, and return queue; then the
\* walk of expressionToGASM starts with its own empty stack
YardEnd ==
    /\ xpc = "shuntingYard"
    /\ pos > Len(tokens)
    /\ UNCHANGED << gvmVars, gdisVars >>
    /\ IF \E k \in DOMAIN xstack : xstack[k].type = "LeftParen"
       THEN Throw("ERROR: Mismatched parentheses error")
       ELSE /\ queue' = queue \o Popped(xstack, 0)
            /\ xstack' = << >>
            /\ xpc' = "walk"
            /\ UNCHANGED << expr, tokens, ossg, pos, what, ub >>

\* the switch (token.str[0]) of the binary operators: the mnemonic written
Mnemonic(s) ==
    LET c2 == IF Len(s) > 1 THEN s[2] ELSE " "
    IN  CASE s[1] = "^" -> "XOR"
          [] s[1] = "*" -> "MUL"
          [] s[1] = "/" -> "DIV"
          [] s[1] = "+" -> "ADD"
          [] s[1] = "-" -> "SUB"
          [] s[1] = "%" -> "MOD"
          [] s[1] = "&" /\ c2 = "&" -> "BAND"
          [] s[1] = "&" /\ c2 = " " -> "AND"
          [] s[1] = "|" /\ c2 \in { "|", " " } -> "OR"
          [] s[1] = "<" /\ c2 = "<" -> "SHL"
          [] s[1] = "<" /\ c2 = "=" -> "LE"
          [] s[1] = "<" /\ c2 = " " -> "LT"
          [] s[1] = ">" /\ c2 = ">" -> "SHR"
          [] s[1] = ">" /\ c2 = "=" -> "GE"
          [] s[1] = ">" /\ c2 = " " -> "GT"
          [] s[1] = "=" /\ c2 = "=" -> "EQ"
          [] s[1] = "!" /\ c2 = "=" -> "NE"
          [] OTHER -> "UNKNOWN_OPERATION"

\* expressionToGASM: one iteration of while (!queue.empty())
WalkToken ==
    /\ xpc = "walk"
    /\ queue # << >>
    /\ UNCHANGED << gvmVars, gdisVars >>
    /\ LET token == Head(queue)
           zero  == Token("Number", << "0" >>, -1, FALSE, FALSE)
           \* the stack without its n top elements, as far as it has them
           rest(n) == SubSeq(xstack, 1, IF Len(xstack) > n THEN Len(xstack) - n ELSE 0)
           Step(line, s) ==
               /\ queue' = Tail(queue)
               /\ ossg' = Append(ossg, line)
               /\ xstack' = s
               /\ UNCHANGED << expr, tokens, pos, xpc, what >>
           \* std::stoi(str) of a string of digits with an optional sign (none
           \* of the strings has more digits than int holds); not for ""
           RECURSIVE Value(_)
           Value(s) ==
               IF s = << >> THEN 0
               ELSE 10 * Value(SubSeq(s, 1, Len(s) - 1))
                    + (CHOOSE d \in 0 .. 9 : DigitChars[d + 1] = s[Len(s)])
           stoi(str) == IF str[1] = "-" THEN 0 - Value(Tail(str)) ELSE Value(str)
           \* std::to_string(n) of an int
           RECURSIVE Decimal(_)
           Decimal(n) ==
               IF n < 10 THEN << DigitChars[n + 1] >>
               ELSE Decimal(n \div 10) \o << DigitChars[(n % 10) + 1] >>
           to_string(n) == IF n < 0 THEN << "-" >> \o Decimal(0 - n) ELSE Decimal(n)
           Unary(rhs, s) ==
               IF rhs.str = << >>
               THEN /\ xpc' = "thrown"
                    /\ what' = "stoi"
                    /\ queue' = Tail(queue)
                    /\ xstack' = s
                    /\ UNCHANGED << expr, tokens, ossg, pos >>
               ELSE CASE token.str[1] = "~" ->
                             Step(<< "NEG" >>,
                                  Append(s, [rhs EXCEPT !.str = to_string(0 - stoi(@) - 1)]))
                      [] token.str[1] = "!" ->
                             Step(<< "NOT" >>,
                                  Append(s, [rhs EXCEPT
                                               !.str = to_string(IF stoi(@) = 0 THEN 1 ELSE 0)]))
                      [] OTHER ->
                             /\ xpc' = "thrown"
                             /\ what' = "ERROR: Operator error"
                             /\ queue' = Tail(queue)
                             /\ xstack' = s
                             /\ UNCHANGED << expr, tokens, ossg, pos >>
           Binary(s) ==
               IF Mnemonic(token.str) = "UNKNOWN_OPERATION"
               THEN /\ xpc' = "thrown"
                    /\ what' = "ERROR: Operator error (2)"
                    /\ queue' = Tail(queue)
                    /\ ossg' = Append(ossg, << "UNKNOWN_OPERATION" >>)
                    /\ xstack' = s
                    /\ UNCHANGED << expr, tokens, pos >>
               ELSE Step(<< Mnemonic(token.str) >>, Append(s, zero))
       IN  CASE token.type = "Register" ->
                    Step(<< "PUSH", "@" >> \o token.str, Append(xstack, token)) /\ ub' = ub
             [] token.type = "Number" ->
                    Step(<< "PUSH" >> \o token.str, Append(xstack, token)) /\ ub' = ub
             [] token.type = "Operator" /\ token.unary ->
                    IF xstack # << >>
                    THEN Unary(xstack[Len(xstack)], rest(1)) /\ ub' = ub
                    ELSE Undefined(\E rhs \in { zero, Token("Register", << >>, -1, FALSE, FALSE) } :
                                       Unary(rhs, << >>))
             [] token.type = "Operator" /\ ~token.unary ->
                    IF Len(xstack) >= 2
                    THEN Binary(rest(2)) /\ ub' = ub
                    ELSE Undefined(Binary(<< >>))
             [] OTHER -> Throw("ERROR: Token error")

\* return ossg.str()
WalkEnd ==
    /\ xpc = "walk"
    /\ queue = << >>
    /\ UNCHANGED << gvmVars, gdisVars >>
    /\ xpc' = "returned"
    /\ UNCHANGED << expr, tokens, queue, xstack, ossg, pos, what, ub >>

\* the longest expression of which every string of characters is tried
MaxExprLen == 3

\* expressionToGASM(expr, lf) is called and exprToTokens(expr) starts, on
\* every string of up to MaxExprLen characters, every x op y op z with and
\* without parentheses, and the examples; no GVM is running
ExprInit ==
    LET Chars    == { "1", "@", " ", "(", ")", "+", "-", "~", "!", "&", "|", "=" }
        Binary   == { << "^" >>, << "*" >>, << "/" >>, << "%" >>, << "+" >>, << "-" >>,
                      << "&" >>, << "&", "&" >>, << "|" >>, << "|", "|" >>,
                      << "<", "<" >>, << ">", ">" >>, << "<" >>, << "<", "=" >>,
                      << ">" >>, << ">", "=" >>, << "=", "=" >>, << "!", "=" >> }
        Shapes   == { << "1", "o", "2", "o", "3" >>,
                      << "(", "1", "o", "2", ")", "o", "3" >>,
                      << "1", "o", "(", "2", "o", "3", ")" >>,
                      << "1", "o", "2", ")", "o", "3" >>,
                      << "!", "1", "o", "~", "@", "2", "o", "3" >> }
        \* shape sh with its first "o" replaced by o1 and its second by o2
        RECURSIVE Fill(_, _, _)
        Fill(sh, o1, o2) ==
            IF sh = << >> THEN << >>
            ELSE IF Head(sh) = "o" THEN o1 \o Fill(Tail(sh), o2, o2)
            ELSE << Head(sh) >> \o Fill(Tail(sh), o1, o2)
        ExprInputs ==
            UNION { [1 .. n -> Chars] : n \in 0 .. MaxExprLen }
            \cup { Fill(sh, o1, o2) : sh \in Shapes, o1 \in Binary, o2 \in Binary }
            \cup { << "1", " ", "=", "=", " ", "1", " ", "&", "&", " ", "2", " ", "!", "=",
                  " ", "3" >>,
               << "8", "8", " ", "+", " ", "~", "@", "9", "9", "+", "4", "*", "2", "/", "(",
                  "6", "-", "5", ")", "*", "2", "*", "3" >>,
               << "a", " ", "&", "&", " ", "b", " ", "|", "|", " ", "c" >>,
               << "~", "~", "1", "2" >>, << "!", "(", "~", "0", ")" >>, << "1", "\t", "2" >> }
    IN  /\ expr \in ExprInputs
        /\ tokens = << >> /\ queue = << >> /\ xstack = << >> /\ ossg = << >>
        /\ pos = 1 /\ xpc = "exprToTokens" /\ what = "" /\ ub = FALSE
        /\ code = << >> /\ io = ZeroImage /\ stack = << >> /\ context = << >>
        /\ term = 0 /\ count = 0 /\ opcode = 0 /\ hostCallback = FALSE /\ limit = 0
        /\ pc = "idle" /\ runs = 0 /\ plan = << >> /\ hist = << >> /\ host = NothingKept
        /\ GdisIdle

ExprNext ==
    \/ LexChar
    \/ LexEnd
    \/ YardToken
    \/ YardEnd
    \/ WalkToken
    \/ WalkEnd

ExprSpec == ExprInit /\ [][ExprNext]_vars

(***************************************************************************)
(* gdis: GDisassembler of src/gdis.cpp, run on one file after the other.   *)
(* GDisassembler::code is the variable code; std::cout is the string       *)
(* written so far.                                                         *)
(***************************************************************************)
\* the masks gdis.cpp tests and clears in the opcode byte; src/gvm.hpp has
\* only STACK, of which both are synonyms
OP_ISTACK == STACK

OP_OSTACK == STACK
\* GDisassembler::read where a jump target has a control byte as well
GReadControlByte(at, jump_skip_control) ==
    LET Ends(how, val, next, ptr) ==
            [ends |-> how, val |-> val, pc |-> next, is_pointer |-> ptr]
        control  == code[at + 1]
        at1      == at + 1
        v        == control % (MAX_SHORT_VAL + 1)
        regptr   == (control \div REG_PTR) % 2 = 1
        shortval == (control \div SHORT_VAL) % 2 = 1
    IN  IF at >= Len(code) THEN { Ends("exit", Zero, at, FALSE) }
        ELSE IF shortval THEN { Ends("return", FromNat(v), at1, regptr) }
        ELSE IF at1 + v > Len(code) THEN { Ends("exit", Zero, at1, FALSE) }
        ELSE IF v > WordBytes
        THEN { Ends("return", CodeWord(at1, WordBytes), at1 + v, regptr),
               Ends("kill", Zero, at1, FALSE) }
        ELSE { Ends("return", CodeWord(at1, v), at1 + v, regptr) }

\* GDisassembler::read without the REG_PTR bit: every operand a plain value
GReadNoPointer(at, jump_skip_control) ==
    LET Ends(how, val, next, ptr) ==
            [ends |-> how, val |-> val, pc |-> next, is_pointer |-> ptr]
        control  == IF jump_skip_control THEN 2 ELSE code[at + 1]
        at1      == IF jump_skip_control THEN at ELSE at + 1
        v        == control % (MAX_SHORT_VAL + 1)
        regptr   == FALSE
        shortval == (control \div SHORT_VAL) % 2 = 1
    IN  IF at >= Len(code) THEN { Ends("exit", Zero, at, FALSE) }
        ELSE IF shortval THEN { Ends("return", FromNat(v), at1, regptr) }
        ELSE IF at1 + v > Len(code) THEN { Ends("exit", Zero, at1, FALSE) }
        ELSE IF v > WordBytes
        THEN { Ends("return", CodeWord(at1, WordBytes), at1 + v, regptr),
               Ends("kill", Zero, at1, FALSE) }
        ELSE { Ends("return", CodeWord(at1, v), at1 + v, regptr) }

\* GDisassembler::read at offset at of the code: the value, the offset after
\* the operand, is_pointer, and how the call ends: it returns, prints
\* "Unexpected end of code" and exits, or (memcpy of more than 8 bytes into
\* val, undefined) the process is killed or goes on with the low bytes
GRead(at, jump_skip_control) ==
    LET Ends(how, val, next, ptr) ==
            [ends |-> how, val |-> val, pc |-> next, is_pointer |-> ptr]
        control  == IF jump_skip_control THEN 2 ELSE code[at + 1]
        at1      == IF jump_skip_control THEN at ELSE at + 1
        v        == control % (MAX_SHORT_VAL + 1)
        regptr   == (control \div REG_PTR) % 2 = 1
        shortval == (control \div SHORT_VAL) % 2 = 1
    IN  IF at >= Len(code) THEN { Ends("exit", Zero, at, FALSE) }
        ELSE IF shortval THEN { Ends("return", FromNat(v), at1, regptr) }
        ELSE IF at1 + v > Len(code) THEN { Ends("exit", Zero, at1, FALSE) }
        ELSE IF v > WordBytes
        THEN { Ends("return", CodeWord(at1, WordBytes), at1 + v, regptr),
               Ends("kill", Zero, at1, FALSE) }
        ELSE { Ends("return", CodeWord(at1, v), at1 + v, regptr) }

\* main of gdis is started on the next file: GDisassembler(code), disassemble()
DisStart ==
    /\ gstate # "disassemble"
    /\ files # << >>
    /\ code' = Head(files)
    /\ files' = Tail(files)
    /\ gpc' = 0
    /\ cout' = ""
    /\ gstate' = "disassemble"
    /\ UNCHANGED << io, stack, context, term, count, opcode, hostCallback, limit, pc, runs,
                    plan, hist, host, listed, exprVars >>

\* disassemble: one iteration of while (pc < code.size())
DisInstruction ==
    /\ gstate = "disassemble"
    /\ gpc < Len(code)
    /\ UNCHANGED << gvmVars, files, exprVars >>
    /\ LET \* std::to_string of a uint64_t
           \* (the digits by short division of the bytes by ten, from the
           \* most significant byte down)
           RECURSIVE Div10(_, _, _)
           Div10(w, i, rem) ==
               IF i = 0 THEN << << >>, rem >>
               ELSE LET cur  == rem * ByteMod + w[i]
                        rest == Div10(w, i - 1, cur % 10)
                    IN  << Append(rest[1], cur \div 10), rest[2] >>
           RECURSIVE Decimal(_)
           Decimal(w) ==
               LET qr == Div10(w, WordBytes, 0)
               IN  IF qr[1] = Zero THEN ToString(qr[2])
                   ELSE Decimal(qr[1]) \o ToString(qr[2])
           \* std::setfill('0') << std::setw(5) << s
           Setw5(s) == IF Len(s) >= 5 THEN s ELSE << "0000", "000", "00", "0" >>[Len(s)] \o s
           prop(is_pointer, operand) ==
               IF is_pointer THEN "@" \o Decimal(operand) ELSE Decimal(operand)
           byte   == code[gpc + 1]
           stk    == And8(byte, OP_ISTACK) # 0 \/ And8(byte, OP_OSTACK) # 0
           masked == byte - And8(byte, OP_ISTACK + OP_OSTACK - And8(OP_ISTACK, OP_OSTACK))
           label  == "L" \o Setw5(ToString(gpc)) \o ": "
           \* the process ends inside the instruction, with text written
           Ended(how, text) ==
               /\ gstate' = how
               /\ cout' = cout \o text
               /\ gpc' = gpc
               /\ listed' = Append(listed, [code |-> code, text |-> cout \o text, ends |-> how])
           Written(text, next) ==
               /\ gstate' = gstate
               /\ cout' = cout \o text \o "\n"
               /\ gpc' = next
               /\ listed' = listed
           How(r) == IF r.ends = "exit" THEN "exited" ELSE "aborted"
           Shown(r, jump) ==
               (IF jump THEN "L" \o Setw5(prop(r.is_pointer, r.val))
                ELSE prop(r.is_pointer, r.val)) \o " "
           disasm(operation, n, isjump) ==
               LET head == label \o operation \o " "
               IN  IF n = 0 THEN Written(head, gpc + 1)
                   ELSE \E r1 \in GRead(gpc + 1, isjump /\ n = 1) :
                        IF r1.ends # "return" THEN Ended(How(r1), head)
                        ELSE IF n = 1
                        THEN Written(head \o Shown(r1, isjump), r1.pc)
                        ELSE \E r2 \in GRead(r1.pc, isjump) :
                             IF r2.ends # "return"
                             THEN Ended(How(r2), head \o Shown(r1, FALSE))
                             ELSE Written(head \o Shown(r1, FALSE) \o Shown(r2, isjump), r2.pc)
           inline(n) == IF stk THEN 0 ELSE n
       IN  CASE masked = OP_NOP -> disasm("NOP", 0, FALSE)
             [] masked = OP_TERM -> disasm("TERM", 0, FALSE)
             [] masked = OP_SET -> disasm("SET", 2, FALSE)
             [] masked = OP_JMP -> disasm("JMP", 1, TRUE)
             [] masked = OP_ADD -> disasm("ADD", inline(2), FALSE)
             [] masked = OP_SUB -> disasm("SUB", inline(2), FALSE)
             [] masked = OP_MUL -> disasm("MUL", inline(2), FALSE)
             [] masked = OP_DIV -> disasm("DIV", inline(2), FALSE)
             [] masked = OP_MOD -> disasm("MOD", inline(2), FALSE)
             [] masked = OP_OR -> disasm("OR", inline(2), FALSE)
             [] masked = OP_ANDL -> disasm("ANDL", inline(2), FALSE)
             [] masked = OP_XOR -> disasm("XOR", inline(2), FALSE)
             [] masked = OP_NOT -> disasm("NOT", inline(1), FALSE)
             [] masked = OP_SHL -> disasm("SHL", inline(2), FALSE)
             [] masked = OP_SHR -> disasm("SHR", inline(2), FALSE)
             [] masked = OP_INC -> disasm("INC", 1, FALSE)
             [] masked = OP_DEC -> disasm("DEC", 1, FALSE)
             [] masked = OP_PUSH -> disasm("PUSH", 1, FALSE)
             [] masked = OP_POP -> disasm("POP", 1, FALSE)
             [] masked = OP_AND -> disasm("AND", inline(2), FALSE)
             [] masked = OP_HOST -> disasm("HOST", 0, FALSE)
             [] masked = OP_VPUSH -> disasm("VPUSH", 2, FALSE)
             [] masked = OP_VPOP -> disasm("VPOP", 2, FALSE)
             [] masked = OP_CALL -> disasm("CALL", 1, TRUE)
             [] masked = OP_RET -> disasm("RET", 1, FALSE)
             [] masked = OP_JT -> disasm("JT", IF stk THEN 1 ELSE 2, TRUE)
             [] masked = OP_JF -> disasm("JF", IF stk THEN 1 ELSE 2, TRUE)
             [] masked = OP_EQ -> disasm("EQ", inline(2), FALSE)
             [] masked = OP_NE -> disasm("NE", inline(2), FALSE)
             [] masked = OP_GT -> disasm("GT", inline(2), FALSE)
             [] masked = OP_LT -> disasm("LT", inline(2), FALSE)
             [] masked = OP_GE -> disasm("GE", inline(2), FALSE)
             [] masked = OP_LE -> disasm("LE", inline(2), FALSE)
             [] masked = OP_NEG -> disasm("NEG", inline(1), FALSE)
             [] masked = OP_ORL -> disasm("ORL", inline(2), FALSE)
             [] OTHER -> Written(label \o "UNKNOWN_OPCODE_" \o ToString(masked), gpc + 1)

\* the loop ends: disassemble returns and main returns 0
DisReturn ==
    /\ gstate = "disassemble"
    /\ gpc >= Len(code)
    /\ gstate' = "returned"
    /\ listed' = Append(listed, [code |-> code, text |-> cout, ends |-> "returned"])
    /\ UNCHANGED << gvmVars, gpc, cout, files, exprVars >>

\* gdis is invoked on two files in turn, or on one: single instructions of
\* the forms and operand encodings of the VM, whole and cut short, and the
\* same operand value in its encodings of different lengths
GdisInit ==
    LET Five    == { Short(5), Lit(<< 5 >>), Lit(<< 5, 0 >>), AtShort(5), AtLit(<< 5 >>) }
        Several == { << op >> \o a \o b : op \in { OP_SET, OP_ADD }, a \in Operands, b \in Five }
                   \cup { << op >> \o a : op \in { OP_PUSH, OP_NOT }, a \in Operands \cup Five }
                   \cup { << op >> \o a \o Addr(t) :
                            op \in { OP_JF, OP_JT }, a \in Five, t \in Targets }
                   \cup { << op >> \o Addr(t) :
                            op \in { OP_JMP, OP_CALL, OP_JF + STACK, OP_JT + STACK },
                            t \in Targets }
                   \cup { << op >> : op \in { OP_NOP, OP_TERM, OP_HOST, OP_ADD + STACK,
                                              OP_NOT + STACK, OP_ORL + 1, STACK - 1 } }
                   \cup { << OP_SET, REG_PTR + 3, 42 >>,
                          << OP_SET, REG_PTR + SHORT_VAL + 3, SHORT_VAL + 42 >>,
                          << OP_PUSH >> \o Short(7) \o << OP_ADD + STACK, OP_TERM >>,
                          LongProgram, CallProgram, << >> }
    IN  /\ files \in { << a, b >> : a \in Several, b \in Several }
                 \cup { << a >> : a \in UNION { Prefixes(i) : i \in RegInstructions }
                                       \cup StackInstructions }
        /\ listed = << >> /\ gpc = 0 /\ cout = "" /\ gstate = "idle"
        /\ ExprIdle
        /\ code = << >> /\ io = ZeroImage /\ stack = << >> /\ context = << >>
        /\ term = 0 /\ count = 0 /\ opcode = 0 /\ hostCallback = FALSE /\ limit = 0
        /\ pc = "idle" /\ runs = 0 /\ plan = << >> /\ hist = << >> /\ host = NothingKept

GdisNext ==
    \/ DisStart
    \/ DisInstruction
    \/ DisReturn

GdisSpec == GdisInit /\ [][GdisNext]_vars

(***************************************************************************)
(* A code buffer handed both to a GVM and, as a file, to gdis              *)
(***************************************************************************)
\* the machines of Init that a host runs once with the largest limit, on
\* the zeroed image and operand stacks of up to two words; gdis is given the
\* same bytes
BothInit ==
    \E inp \in { x \in Inputs : /\ x.plan = << MaxLimit >>
                               /\ x.junk = 0
                               /\ x.io = ZeroImage
                               /\ Len(x.stack) <= 2 } :
        /\ code = inp.code
        /\ io = inp.io
        /\ stack = inp.stack
        /\ context = << >>
        /\ term = inp.junk
        /\ count = inp.junk
        /\ opcode = inp.junk
        /\ hostCallback = inp.hostCallback
        /\ limit = 0
        /\ pc = "idle"
        /\ runs = 0
        /\ plan = inp.plan
        /\ hist = << >>
        /\ host = NothingKept
        /\ ExprIdle
        /\ gpc = 0 /\ cout = "" /\ gstate = "idle" /\ files = << inp.code >> /\ listed = << >>

BothNext ==
    \/ Next
    \/ GdisNext

BothSpec == BothInit /\ [][BothNext]_vars

(***************************************************************************)
(* The claims                                                              *)
(***************************************************************************)
(***************************************************************************)
(* A host that calls run several times, and then runs the same code once   *)
(* on a second machine                                                     *)
(***************************************************************************)
\* after a call of run returned, the host copies what the machine left: the
\* image, the two stacks and term
Keep ==
    /\ pc = "returned"
    /\ Len(host.seen) = runs - 1
    /\ host' = [host EXCEPT !.seen = Append(@, [io |-> io, stack |-> stack,
                                               context |-> context, term |-> term])]
    /\ UNCHANGED << code, io, stack, context, term, count, opcode, hostCallback, limit, pc,
                    runs, plan, hist, exprVars, gdisVars >>

\* after the calls of its plan, each followed by a copy, and none of which
\* called the callback, the host restores the image and the operand stack
\* it started with, constructs a machine on them (term, count and opcode
\* are again uninitialized) and plans one call with the sum of the limits
Rebuild ==
    LET RECURSIVE Sum(_)
        Sum(s) == IF s = << >> THEN 0 ELSE Head(s) + Sum(Tail(s))
    IN  /\ pc = "returned"
        /\ host.first = 0
        /\ runs = Len(plan)
        /\ runs >= 2
        /\ Len(host.seen) = runs
        /\ \A i \in DOMAIN hist : hist[i].opcode # OP_HOST
        /\ host' = [host EXCEPT !.first = runs]
        /\ plan' = Append(plan, Sum(plan))
        /\ io' = IF hist = << >> THEN io ELSE hist[1].io
        /\ stack' = IF hist = << >> THEN stack ELSE hist[1].stack
        /\ context' = << >>
        /\ \E junk \in Uninit : term' = junk /\ count' = junk /\ opcode' = junk
        /\ pc' = "idle"
        /\ UNCHANGED << code, hostCallback, limit, runs, hist, exprVars, gdisVars >>

ResumeNext ==
    \/ Next
    \/ Keep
    \/ Rebuild

ResumeSpec == Init /\ [][ResumeNext]_vars

\* the instructions the call of run in progress (or the last one) dispatched
Dispatched == { i \in DOMAIN hist : hist[i].run = runs }

\* the call of run in progress has not halted: no fault, PC inside the code
NotHalted == pc = "loop" /\ LoopCond

\* C1, first part: a call run(limit) never dispatches more than limit
\* instructions
LimitBoundsDispatch == Cardinality(Dispatched) <= limit

\* C1, second part: when limit instructions were dispatched and the program
\* has not halted, the next step ends the run with term = ERR_OPLIMIT and
\* fetches and executes nothing (PC, memory, stacks, opcode, history unchanged)
LimitStopsRun ==
    (NotHalted /\ Cardinality(Dispatched) = limit)
        => /\ term' = ERR_OPLIMIT
           /\ pc' = "returned"
           /\ UNCHANGED << io, stack, context, opcode, hist >>

\* C1, third part: each step of run ends the run or dispatches exactly one
\* more instruction, so that the run ends within limit + 1 steps
RunProgress ==
    pc = "loop"
        => \/ pc' # "loop"
           \/ runs' = runs /\ Cardinality(Dispatched') = Cardinality(Dispatched) + 1

\* C1: every call run(L) dispatches at most L instructions, each of its
\* steps ends it or dispatches one more; a program that has not halted after
\* L instructions is stopped with ERR_OPLIMIT before instruction L+1 is fetched
C1_RunEndsWithinLimit ==
    /\ []LimitBoundsDispatch
    /\ [][LimitStopsRun /\ RunProgress]_vars

\* C1 witness: a run stopped by the limit after dispatching limit > 0 instructions
C1_Witness ==
    /\ pc = "returned"
    /\ term = ERR_OPLIMIT
    /\ limit > 0
    /\ Cardinality(Dispatched) = limit

(***************************************************************************)
(* The instruction dispatched last, and the state it left                  *)
(***************************************************************************)
Last == hist[Len(hist)]

\* the last instruction was dispatched by the call of run in progress (or
\* the one that returned last), ran to its end and was not cut by a fault
RanClean(e) == e.faults = << >> /\ ~e.crash /\ ~e.thrown

Codes(e) == { e.faults[i] : i \in DOMAIN e.faults }

\* the state instruction i of hist left: the one the next instruction found,
\* or the present one (the host changes nothing between two calls of run)
After(i) ==
    IF i < Len(hist)
    THEN [io |-> hist[i + 1].io, stack |-> hist[i + 1].stack, depth |-> hist[i + 1].depth]
    ELSE [io |-> io, stack |-> stack, depth |-> Len(context)]

\* C2, first part: an instruction that assigned term is the last one its call
\* of run dispatched
FaultIsLast ==
    \A i, j \in DOMAIN hist :
        (hist[i].faults # << >> /\ i < j) => hist[j].run # hist[i].run

\* C2, second part: after such an instruction term is non-zero until run has
\* returned
FaultKept ==
    (/\ pc \in { "loop", "returned" }
     /\ Len(hist) > 0
     /\ Last.run = runs
     /\ Last.faults # << >>) => term # ERR_OK

\* C2, third part: with term non-zero the next step of run is its return; it
\* fetches and executes nothing
FaultStops ==
    (pc = "loop" /\ term # ERR_OK)
        => /\ pc' = "returned"
           /\ UNCHANGED << io, stack, context, term, count, opcode, hist >>

\* C2: faults are non-resumable: the instruction that sets term is the last
\* one its call of run dispatches, and run returns with term non-zero
C2_FaultsNonResumable ==
    /\ [](FaultIsLast /\ FaultKept)
    /\ [][FaultStops]_vars

\* C2 witness: a run that a fault ended with code left to execute and
\* instructions left in its limit
C2_Witness ==
    /\ pc = "returned"
    /\ Len(hist) > 0
    /\ Last.run = runs
    /\ Last.faults # << >>
    /\ term # ERR_OK
    /\ Below(PC, Len(code))
    /\ count < limit

\* C3: at every instruction boundary of run (before a fetch, at the return)
\* PC is within [0, size(code)] or is UINT64_MAX
C3_PCWithinCode ==
    pc \in { "loop", "returned" } => (Below(PC, Len(code) + 1) \/ PC = UINT64_MAX)

\* the RET that matches the CALL at i of hist: the first RET after it, in the
\* same call of run, that finds the call stack one deeper than the CALL did
IsReturnOf(j, i) ==
    /\ i < j
    /\ hist[i].opcode = OP_CALL
    /\ hist[j].opcode = OP_RET
    /\ hist[j].run = hist[i].run
    /\ hist[j].depth = hist[i].depth + 1
    /\ \A k \in DOMAIN hist : (i < k /\ k < j) => hist[k].depth > hist[i].depth
    /\ RanClean(hist[i])
    /\ RanClean(hist[j])

\* C4: after the RET v that matches a CALL, io[0] is the offset after the
\* CALL's address, io[2..7] are as the CALL found them, R is v as the callee
\* evaluated it, and the call stack has the depth the CALL found
C4_CallRetRestores ==
    \A i, j \in DOMAIN hist :
        IsReturnOf(j, i)
            => /\ Cell(After(j).io, 0) = FromNat(hist[i].at + 3)
               /\ \A k \in 2 .. REG_SIZE - 1 : Cell(After(j).io, k) = Cell(hist[i].io, k)
               /\ Cell(After(j).io, 1) = hist[j].ops[1]
               /\ After(j).depth = hist[i].depth

\* C4 witness: a callee that changed io[2] and io[3] has returned a non-zero
\* value that is not the R of the CALL
C4_Witness ==
    \E i, j \in DOMAIN hist :
        /\ IsReturnOf(j, i)
        /\ hist[j].ops[1] # Cell(hist[i].io, 1)
        /\ Cell(hist[j].io, 2) # Cell(hist[i].io, 2)
        /\ Cell(hist[j].io, 3) # Cell(hist[i].io, 3)

\* the stack forms of C5, and the number of operands each pops
StackForms == { o + STACK : o \in StackCapable \ { OP_JF, OP_JT } }

Arity(o) == IF o \in { OP_NOT + STACK, OP_NEG + STACK } THEN 1 ELSE 2

\* a op b (op a for the unary forms) of stack form o
StackFormResult(o, a, b) ==
    CASE o = OP_ADD + STACK -> { WAdd(a, b) }
      [] o = OP_SUB + STACK -> { WSub(a, b) }
      [] o = OP_MUL + STACK -> { WMul(a, b) }
      [] o = OP_DIV + STACK -> { WDiv(a, b) }
      [] o = OP_MOD + STACK -> { WMod(a, b) }
      [] o = OP_OR + STACK -> { WOr(a, b) }
      [] o = OP_ANDL + STACK -> { LAnd(a, b) }
      [] o = OP_XOR + STACK -> { WXor(a, b) }
      [] o = OP_NOT + STACK -> { LNot(a) }
      [] o = OP_SHL + STACK -> WShl(a, b)
      [] o = OP_SHR + STACK -> WShr(a, b)
      [] o = OP_AND + STACK -> { WAnd(a, b) }
      [] o = OP_EQ + STACK -> { WEq(a, b) }
      [] o = OP_NE + STACK -> { WNe(a, b) }
      [] o = OP_GT + STACK -> { WGt(a, b) }
      [] o = OP_LT + STACK -> { WLt(a, b) }
      [] o = OP_GE + STACK -> { WGe(a, b) }
      [] o = OP_LE + STACK -> { WLe(a, b) }
      [] o = OP_NEG + STACK -> { WCpl(a) }
      [] o = OP_ORL + STACK -> { LOr(a, b) }

\* the operand stacks C5 allows stack form o to leave of stack s
StackFormLeaves(o, s) ==
    LET n    == Len(s)
        rest == SubSeq(s, 1, n - Arity(o))
        b    == s[n]
        a    == IF Arity(o) = 1 THEN s[n] ELSE s[n - 1]
    IN  { Append(rest, r) : r \in StackFormResult(o, a, b) }

\* C5: a stack form that finds its operands on the stack and does not fault
\* pops b then a, pushes a op b (op a), decodes no inline operand (PC is
\* just after the opcode byte) and does not write R
C5_StackFormsPushResult ==
    (/\ Len(hist) > 0
     /\ Last.opcode \in StackForms
     /\ Len(Last.stack) >= Arity(Last.opcode)
     /\ RanClean(Last))
        => /\ stack \in StackFormLeaves(Last.opcode, Last.stack)
           /\ R = Cell(Last.io, 1)
           /\ PC = FromNat(Last.at + 1)

\* a call run(limit) of a fresh machine on the program c, a zeroed memory
\* image and empty stacks has returned, limit being enough for the program
RanProgram(c) ==
    /\ code = c
    /\ pc = "returned"
    /\ runs = 1
    /\ limit >= 5
    /\ Len(hist) > 0
    /\ hist[1].io = ZeroImage
    /\ hist[1].stack = << >>
    /\ hist[1].depth = 0

\* C6 as stated: PUSH 7; PUSH 5; ADD|STACK; POP @3; TERM ends with
\* term = ERR_OK and io[3] = 12
C6_SumToReference ==
    RanProgram(SumProgram(AtShort(3))) => (term = ERR_OK /\ Cell(io, 3) = FromNat(12))

\* C6, amended: PUSH 7; PUSH 5; ADD|STACK; POP 3; TERM (the destination a
\* literal index) ends with term = ERR_OK and io[3] = 12
C6_SumToIndex ==
    RanProgram(SumProgram(Short(3))) => (term = ERR_OK /\ Cell(io, 3) = FromNat(12))

\* C6 witness: the amended program has run to its TERM
C6_Witness ==
    /\ RanProgram(SumProgram(Short(3)))
    /\ Len(hist) = 5
    /\ Last.opcode = OP_TERM
    /\ PC = UINT64_MAX

\* the last two instructions are a PUSH v and a POP k of one call of run,
\* neither cut by a fault, with k < 1024
PushThenPop ==
    /\ Len(hist) >= 2
    /\ hist[Len(hist) - 1].opcode = OP_PUSH
    /\ Last.opcode = OP_POP
    /\ hist[Len(hist) - 1].run = Last.run
    /\ RanClean(hist[Len(hist) - 1])
    /\ RanClean(Last)
    /\ Below(Last.ops[1], IO_SIZE)

\* C7: after PUSH v; POP k with k < 1024, io[k] = v and the operand stack
\* is as the PUSH found it
C7_PushPopStores ==
    PushThenPop
        => /\ Cell(io, ToNat(Last.ops[1])) = hist[Len(hist) - 1].ops[1]
           /\ stack = hist[Len(hist) - 1].stack

\* C7 witness: PUSH v; POP k on a stack that was not empty, with v non-zero
\* and io[k] not v before
C7_Witness ==
    /\ PushThenPop
    /\ hist[Len(hist) - 1].stack # << >>
    /\ hist[Len(hist) - 1].ops[1] # Zero
    /\ Cell(Last.io, ToNat(Last.ops[1])) # hist[Len(hist) - 1].ops[1]

\* io[dst] = io[io[ptr]], then io[ptr] decremented, on image mem
VPopOfClaim(mem, ptr, dst) ==
    LET m1 == MemSet(mem, dst, Cell(mem, ToNat(Cell(mem, ptr))))
    IN  MemSet(m1, ptr, WSub(Cell(m1, ptr), One))

\* C8: VPOP ptr, dst leaves the memory image with io[dst] = io[io[ptr]] and
\* io[ptr] then decremented (for ptr, dst and io[ptr] three different cells
\* of io[1..1023])
C8_VPopLoadsElement ==
    (/\ Len(hist) > 0
     /\ Last.opcode = OP_VPOP
     /\ RanClean(Last)
     /\ Below(Last.ops[1], IO_SIZE) /\ ~IsZero(Last.ops[1])
     /\ Below(Last.ops[2], IO_SIZE) /\ ~IsZero(Last.ops[2])
     /\ Below(Cell(Last.io, ToNat(Last.ops[1])), IO_SIZE)
     /\ ~IsZero(Cell(Last.io, ToNat(Last.ops[1])))
     /\ Cardinality({ Last.ops[1], Last.ops[2], Cell(Last.io, ToNat(Last.ops[1])) }) = 3)
        => io = VPopOfClaim(MemSet(Last.io, 0, PC), ToNat(Last.ops[1]), ToNat(Last.ops[2]))

\* run has returned from a call whose last instruction assigned code e to term
EndedAfter(e) ==
    /\ pc = "returned"
    /\ Len(hist) > 0
    /\ Last.run = runs
    /\ e \in Codes(Last)

\* C9: an instruction that accesses an index >= 1024 makes the run end with
\* term = ERR_SEGFAULT, and only cells of io[0..1023] are accessed
C9_SegfaultReported ==
    /\ EndedAfter(ERR_SEGFAULT) => term = ERR_SEGFAULT
    /\ Len(hist) > 0 => Last.touched \subseteq 0 .. IO_SIZE - 1

\* C10: an instruction that pops the empty operand stack makes the run end
\* with term = ERR_UNDERFLOW
C10_UnderflowReported == EndedAfter(ERR_UNDERFLOW) => term = ERR_UNDERFLOW

\* the code assigned to term last by the instruction of entry e
LastFault(e) == e.faults[Len(e.faults)]

\* the operand stack s without its (at most n) top elements
Without(s, n) == SubSeq(s, 1, IF Len(s) > n THEN Len(s) - n ELSE 0)

\* entry i of hist is the last one and belongs to the call of run in
\* progress (or the one that returned last), so that term is what it left
IsCurrent(i) ==
    i = Len(hist) /\ hist[i].run = runs /\ pc \in { "loop", "returned" }

\* C11: a DIV or MOD whose right operand is 0 leaves term = ERR_DIVZERO; in
\* register form (right operand: the second one decoded) R and the operand
\* stack are as before, in stack form (right operand: the one popped first)
\* the operands are popped and nothing is pushed
C11_DivModByZero ==
    \A i \in DOMAIN hist :
        LET e == hist[i]
        IN  /\ (e.opcode \in { OP_DIV, OP_MOD } /\ ~e.crash /\ e.ops[2] = Zero)
                => /\ e.faults # << >> /\ LastFault(e) = ERR_DIVZERO
                   /\ IsCurrent(i) => term = ERR_DIVZERO
                   /\ Cell(After(i).io, 1) = Cell(e.io, 1)
                   /\ After(i).stack = e.stack
            /\ (e.opcode \in { OP_DIV + STACK, OP_MOD + STACK } /\ e.ops[1] = Zero)
                => /\ e.faults # << >> /\ LastFault(e) = ERR_DIVZERO
                   /\ IsCurrent(i) => term = ERR_DIVZERO
                   /\ After(i).stack = Without(e.stack, 2)
                   /\ \A k \in 1 .. IO_SIZE - 1 : Cell(After(i).io, k) = Cell(e.io, k)

\* C11 witness: DIV a, 0 with a and R non-zero has ended the run with
\* ERR_DIVZERO as its only fault
C11_Witness ==
    /\ pc = "returned"
    /\ Len(hist) > 0
    /\ IsCurrent(Len(hist))
    /\ Last.opcode = OP_DIV
    /\ Last.faults = << ERR_DIVZERO >>
    /\ Last.ops[2] = Zero
    /\ Last.ops[1] # Zero
    /\ Cell(Last.io, 1) # Zero
    /\ term = ERR_DIVZERO

\* what a SUB with operands a and b that wrote r into R, or pushed r, must
\* have left: r + b = a modulo 2^64; with a < b the last code assigned to
\* term is ERR_NEGNUM, with a >= b the SUB assigned none (term is
\* ERR_OK when the operands were decoded without a fault)
SubLeaves(i, a, b, r) ==
    /\ WAdd(r, b) = a
    /\ WLess(a, b)
        => /\ hist[i].faults # << >> /\ LastFault(hist[i]) = ERR_NEGNUM
           /\ IsCurrent(i) => term = ERR_NEGNUM
    /\ ~WLess(a, b)
        => /\ ERR_NEGNUM \notin Codes(hist[i])
           /\ (IsCurrent(i) /\ hist[i].faults = << >>) => term = ERR_OK

\* C12: SUB a, b leaves (a - b) mod 2^64 in R in register form and on top
\* of the popped operand stack in stack form, whether a < b or not; with
\* a < b it then sets term = ERR_NEGNUM, with a >= b it leaves term alone
C12_SubWrapsThenFaults ==
    \A i \in DOMAIN hist :
        LET e == hist[i]
        IN  /\ (e.opcode = OP_SUB /\ ~e.crash)
                => /\ SubLeaves(i, e.ops[1], e.ops[2], Cell(After(i).io, 1))
                   /\ After(i).stack = e.stack
            /\ e.opcode = OP_SUB + STACK
                => /\ Len(After(i).stack) = Len(Without(e.stack, 2)) + 1
                   /\ SubSeq(After(i).stack, 1, Len(After(i).stack) - 1) = Without(e.stack, 2)
                   /\ SubLeaves(i, e.ops[2], e.ops[1], After(i).stack[Len(After(i).stack)])

\* C12 witness: SUB|STACK has popped a = 0 and b = 5, pushed 2^64 - 5 and
\* ended the run with ERR_NEGNUM
C12_Witness ==
    /\ pc = "returned"
    /\ Len(hist) > 0
    /\ IsCurrent(Len(hist))
    /\ Last.opcode = OP_SUB + STACK
    /\ Last.stack = << Zero, FromNat(5) >>
    /\ stack = << WCpl(FromNat(4)) >>
    /\ term = ERR_NEGNUM

\* the conditional jumps, register and stack form
CondJumps == { OP_JF, OP_JT, OP_JF + STACK, OP_JT + STACK }

\* the offset after the condition operand of the conditional jump of entry
\* e: in stack form the one after the opcode, in register form the one after
\* the control byte and the value bytes it announces
CondEnd(e) ==
    IF e.opcode >= STACK THEN e.at + 1
    ELSE LET control == code[e.at + 2]
         IN  e.at + 2 + (IF (control \div SHORT_VAL) % 2 = 1 THEN 0
                         ELSE control % (MAX_SHORT_VAL + 1))

\* the conditional jump of entry e is whole: its condition operand (of at
\* most 8 value bytes) and the 2 bytes of its address are in the code
WholeJump(e) ==
    /\ e.opcode \in CondJumps
    /\ ~e.crash
    /\ e.opcode < STACK
        => /\ e.at + 2 <= Len(code)
           /\ (code[e.at + 2] \div SHORT_VAL) % 2 = 0
                => code[e.at + 2] % (MAX_SHORT_VAL + 1) <= WordBytes
    /\ CondEnd(e) + 2 <= Len(code)

\* the conditional jump of entry e jumps: JF on a zero, JT on a non-zero
\* condition (the first value it read or popped)
Taken(e) ==
    IF e.opcode \in { OP_JF, OP_JF + STACK } THEN IsZero(e.ops[1]) ELSE ~IsZero(e.ops[1])

\* the 2-byte address operand at offset q of the code, little endian
AddressAt(q) == FromNat(code[q + 1] + ByteMod * code[q + 2])

\* C13: a whole JF or JT leaves PC = addr when it jumps (JF: cond = 0,
\* JT: cond # 0) and PC = the offset after the 2 address bytes when it does
\* not, where the next instruction of the run is fetched; the stack form
\* pops the condition and finds the address right after the opcode, the
\* register form leaves the operand stack alone
C13_ConditionalJumps ==
    \A i \in DOMAIN hist :
        LET e == hist[i]
        IN  WholeJump(e)
                => /\ Taken(e) => Cell(After(i).io, 0) = AddressAt(CondEnd(e))
                   /\ ~Taken(e) => Cell(After(i).io, 0) = FromNat(CondEnd(e) + 2)
                   /\ (~Taken(e) /\ i < Len(hist) /\ hist[i + 1].run = e.run)
                        => hist[i + 1].at = CondEnd(e) + 2
                   /\ After(i).stack = IF e.opcode >= STACK THEN Without(e.stack, 1)
                                       ELSE e.stack
                   /\ \A k \in 1 .. IO_SIZE - 1 : Cell(After(i).io, k) = Cell(e.io, k)

\* C13 witness: a JF or JT with a literal condition of several bytes did not
\* jump, and the instruction after its address was dispatched next
C13_Witness ==
    \E i \in DOMAIN hist :
        /\ WholeJump(hist[i])
        /\ hist[i].opcode < STACK
        /\ ~Taken(hist[i])
        /\ CondEnd(hist[i]) > hist[i].at + 2
        /\ i < Len(hist)
        /\ hist[i + 1].run = hist[i].run
        /\ hist[i + 1].at = CondEnd(hist[i]) + 2

(***************************************************************************)
(* The expression compiler                                                 *)
(***************************************************************************)
\* C14: when expressionToGASM returns (no exception, not killed), no back()
\* or pop_back() met an empty stack during the walk of the postfix queue
\* and the dummy evaluation stack holds exactly one element
C14_StackConsumedExactly ==
    xpc = "returned" => (~ub /\ Len(xstack) = 1)

\* the table of the binary operators: lexeme, mnemonic, precedence
OperatorTable ==
    { << << "^" >>, "XOR", 4 >>, << << "*" >>, "MUL", 10 >>, << << "/" >>, "DIV", 10 >>,
      << << "%" >>, "MOD", 10 >>, << << "+" >>, "ADD", 9 >>, << << "-" >>, "SUB", 9 >>,
      << << "&" >>, "AND", 5 >>, << << "&", "&" >>, "ANDL", 2 >>,
      << << "|" >>, "OR", 3 >>, << << "|", "|" >>, "ORL", 1 >>,
      << << "<", "<" >>, "SHL", 8 >>, << << ">", ">" >>, "SHR", 8 >>,
      << << "<" >>, "LT", 7 >>, << << "<", "=" >>, "LE", 7 >>,
      << << ">" >>, "GT", 7 >>, << << ">", "=" >>, "GE", 7 >>,
      << << "=", "=" >>, "EQ", 6 >>, << << "!", "=" >>, "NE", 6 >> }

\* the binary operator tokens of the expression with lexeme str
BinaryTokens(str) ==
    { i \in DOMAIN tokens :
        tokens[i].type = "Operator" /\ ~tokens[i].unary /\ tokens[i].str = str }

\* C15: the program expressionToGASM returns has, for every row of the
\* table, one line with the row's mnemonic per binary operator token with the
\* row's lexeme (&& gives ANDL, || gives ORL, & gives AND, | gives OR), and
\* 1 == 1 && 2 != 3 compiles to PUSH 1, PUSH 1, EQ, PUSH 2, PUSH 3, NE, ANDL
C15_MnemonicsPerTable ==
    (xpc = "returned" /\ ~ub)
        => /\ \A row \in OperatorTable :
                Cardinality({ i \in DOMAIN ossg : ossg[i] = << row[2] >> })
                    = Cardinality(UNION { BinaryTokens(r[1]) :
                                            r \in { x \in OperatorTable : x[2] = row[2] } })
           /\ expr = << "1", " ", "=", "=", " ", "1", " ", "&", "&", " ", "2", " ", "!", "=",
                        " ", "3" >>
                => ossg = << << "PUSH", "1" >>, << "PUSH", "1" >>, << "EQ" >>,
                             << "PUSH", "2" >>, << "PUSH", "3" >>, << "NE" >>, << "ANDL" >> >>

\* the lexemes of the postfix queue shuntingYard returned
Postfix == [i \in DOMAIN queue |-> queue[i].str]

\* shuntingYard has just returned its queue to expressionToGASM
YardReturned == xpc = "walk" /\ ossg = << >> /\ Len(queue) > 0 /\ xstack = << >>

\* C16: every operator token has the precedence of the table (unary ~ and !
\* 11), 1 && 2 || 3 yields the postfix 1 2 && 3 || and 1 || 2 | 3 yields
\* 1 2 3 | ||
C16_PrecedencePerTable ==
    /\ \A i \in DOMAIN tokens :
            tokens[i].type = "Operator"
                => IF tokens[i].unary THEN tokens[i].precedence = 11
                   ELSE \E row \in OperatorTable :
                            row[1] = tokens[i].str /\ row[3] = tokens[i].precedence
    /\ (YardReturned /\ expr = << "1", "&", "&", "2", "|", "|", "3" >>)
            => Postfix = << << "1" >>, << "2" >>, << "&", "&" >>, << "3" >>, << "|", "|" >> >>
    /\ (YardReturned /\ expr = << "1", "|", "|", "2", "|", "3" >>)
            => Postfix = << << "1" >>, << "2" >>, << "3" >>, << "|" >>, << "|", "|" >> >>

\* some right paren of the tokens has no left paren before it to match, or
\* some left paren is never closed
Mismatched ==
    LET Count(type, n) == Cardinality({ i \in 1 .. n : tokens[i].type = type })
    IN  \/ \E n \in DOMAIN tokens : Count("RightParen", n) > Count("LeftParen", n)
        \/ Count("LeftParen", Len(tokens)) > Count("RightParen", Len(tokens))

\* C17: shuntingYard returns a queue for no token sequence with mismatched
\* parentheses (it throws instead), and never calls pop_back() on its empty
\* operator stack
C17_MismatchReported ==
    /\ xpc \in { "walk", "returned" } => ~Mismatched
    /\ xpc = "shuntingYard" => ~ub

(***************************************************************************)
(* The disassembler                                                        *)
(***************************************************************************)
\* the inline operands that follow opcode byte b and whether the last one is
\* a jump target; << >> when b is no instruction form of the VM (an opcode
\* above ORL, or the STACK bit on an opcode that has no stack form)
Form(b) ==
    LET stk == b >= STACK
        op  == b % STACK
    IN  IF op \in { OP_NOT, OP_NEG } THEN << IF stk THEN 0 ELSE 1, FALSE >>
        ELSE IF op \in { OP_JT, OP_JF } THEN << IF stk THEN 1 ELSE 2, TRUE >>
        ELSE IF op \in { OP_ADD, OP_SUB, OP_MUL, OP_DIV, OP_MOD, OP_OR, OP_ANDL, OP_XOR,
                         OP_SHL, OP_SHR, OP_AND, OP_EQ, OP_NE, OP_GT, OP_LT, OP_GE,
                         OP_LE, OP_ORL }
        THEN << IF stk THEN 0 ELSE 2, FALSE >>
        ELSE IF stk THEN << >>
        ELSE IF op \in { OP_NOP, OP_TERM, OP_HOST } THEN << 0, FALSE >>
        ELSE IF op \in { OP_SET, OP_VPUSH, OP_VPOP } THEN << 2, FALSE >>
        ELSE IF op \in { OP_JMP, OP_CALL } THEN << 1, TRUE >>
        ELSE IF op \in { OP_INC, OP_DEC, OP_PUSH, OP_POP, OP_RET } THEN << 1, FALSE >>
        ELSE << >>

\* the offset after the operand encoded at offset at of c, -1 when it is cut
\* off by the end of c or is a literal of no or of more than 8 bytes
OperandEnd(c, at, target) ==
    IF at < 0 THEN -1
    ELSE IF target THEN (IF at + 2 <= Len(c) THEN at + 2 ELSE -1)
    ELSE IF at >= Len(c) THEN -1
    ELSE IF (c[at + 1] \div SHORT_VAL) % 2 = 1 THEN at + 1
    ELSE LET v == c[at + 1] % SHORT_VAL
         IN  IF v \in 1 .. WordBytes /\ at + 1 + v <= Len(c) THEN at + 1 + v ELSE -1

\* c is a sequence of whole instructions of the VM
WellFormed(c) ==
    LET RECURSIVE From(_)
        From(at) ==
            IF at < 0 \/ at > Len(c) THEN FALSE
            ELSE IF at = Len(c) THEN TRUE
            ELSE LET f == Form(c[at + 1])
                 IN  /\ f # << >>
                     /\ From(IF f[1] = 0 THEN at + 1
                             ELSE IF f[1] = 1 THEN OperandEnd(c, at + 1, f[2])
                             ELSE OperandEnd(c, OperandEnd(c, at + 1, FALSE), f[2]))
    IN  From(0)

\* C18: no two different well-formed byte sequences disassemble to the same
\* text (the bytes can be recovered from the listing)
C18_ListingDeterminesBytes ==
    \A i, j \in DOMAIN listed :
        (/\ WellFormed(listed[i].code) /\ listed[i].ends = "returned"
         /\ WellFormed(listed[j].code) /\ listed[j].ends = "returned"
         /\ listed[i].text = listed[j].text)
            => listed[i].code = listed[j].code

\* the listings of the runs of gdis on the file bytes
ListingsOf(bytes) == { listed[i] : i \in { n \in DOMAIN listed : listed[n].code = bytes } }

\* C19 as stated: gdis on [0x02, 0x83, 0x2A] lists the one instruction
\* SET @3 42 and returns
C19_AsStated ==
    \A l \in ListingsOf(<< 2, 131, 42 >>) :
        l.ends = "returned" /\ l.text = "L00000: SET @3 42 \n"

\* C19: gdis on [0x02, 0xC3, 0x6A] (SHORT_VAL set in both control bytes)
\* lists the one instruction SET @3 42, each operand taking its control byte
\* only: the instruction is read from offset 0 to offset 3, the end of the
\* buffer.  On [0x02, 0x83, 0x2A] the control byte 0x83 announces a 3-byte
\* literal where one byte is left: gdis writes "L00000: SET " and exits on
\* "Unexpected end of code"
C19_ShortOperands ==
    /\ \A l \in ListingsOf(<< OP_SET, REG_PTR + SHORT_VAL + 3, SHORT_VAL + 42 >>) :
           l.ends = "returned" /\ l.text = "L00000: SET @3 42 \n"
    /\ (/\ code = << OP_SET, REG_PTR + SHORT_VAL + 3, SHORT_VAL + 42 >>
        /\ gstate = "disassemble")
           => \/ gpc = 0 /\ cout = ""
              \/ gpc = 3 /\ cout = "L00000: SET @3 42 \n"
    /\ \A l \in ListingsOf(<< OP_SET, REG_PTR + 3, 42 >>) :
           l.ends = "exited" /\ l.text = "L00000: SET "

\* C19 witness: both buffers were disassembled
C19_Witness ==
    /\ ListingsOf(<< OP_SET, REG_PTR + SHORT_VAL + 3, SHORT_VAL + 42 >>) # { }
    /\ ListingsOf(<< OP_SET, REG_PTR + 3, 42 >>) # { }

(***************************************************************************)
(* The instruction counter                                                 *)
(***************************************************************************)
\* C20: during a call of run and after it returned, count is at most limit
\* (also when the run ended with ERR_OPLIMIT) and equals the number of
\* instructions the call dispatched
C20_CountWithinLimit ==
    pc \in { "loop", "returned" }
        => /\ count <= limit
           /\ count = Cardinality(Dispatched)

(***************************************************************************)
(* RET, TERM and the end of the code                                       *)
(***************************************************************************)
\* C21: a RET that finds the call stack empty assigns ERR_RET to term (the
\* code the run returns with), leaves io[1..1023] (R and the registers
\* included), the operand stack and the call stack as they were; so does the
\* second RET after one CALL and its RET
C21_RetOnEmptyCallStack ==
    \A i \in DOMAIN hist :
        LET e == hist[i]
        IN  (e.opcode = OP_RET /\ e.depth = 0 /\ ~e.crash)
                => /\ e.faults # << >> /\ LastFault(e) = ERR_RET
                   /\ IsCurrent(i) => term = ERR_RET
                   /\ \A k \in 1 .. IO_SIZE - 1 : Cell(After(i).io, k) = Cell(e.io, k)
                   /\ After(i).stack = e.stack
                   /\ After(i).depth = 0

\* C21 witness: one CALL, the RET that matches it, and a second RET that
\* ended the run with ERR_RET
C21_Witness ==
    /\ pc = "returned"
    /\ Len(hist) = 3
    /\ IsCurrent(3)
    /\ IsReturnOf(2, 1)
    /\ hist[3].opcode = OP_RET
    /\ hist[3].depth = 0
    /\ hist[3].faults = << ERR_RET >>
    /\ term = ERR_RET

\* C22, first part: the step that executes TERM leaves PC = UINT64_MAX, every
\* other cell of io, the operand stack, the call stack and term as they were
TermStep ==
    (AtSwitch /\ NextByte = OP_TERM)
        => /\ io' = MemSet(io, 0, UINT64_MAX)
           /\ pc' = "loop"
           /\ UNCHANGED << stack, context, term >>

\* C22, second part: the step after a TERM is the return of run with
\* term = ERR_OK; nothing is fetched or executed
TermReturns ==
    (pc = "loop" /\ Len(hist) > 0 /\ Last.run = runs /\ Last.opcode = OP_TERM)
        => /\ pc' = "returned"
           /\ term' = ERR_OK
           /\ UNCHANGED << io, stack, context, count, opcode, hist >>

\* C22, third part: with no fault and PC = size(code) the next step is the
\* return of run with term = ERR_OK
EndOfCodeReturns ==
    (pc = "loop" /\ term = ERR_OK /\ PC = FromNat(Len(code)))
        => /\ pc' = "returned"
           /\ term' = ERR_OK
           /\ UNCHANGED << io, stack, context, count, opcode, hist >>

\* C22, fourth part: a call of run dispatches nothing after a TERM
TermIsLast ==
    \A i, j \in DOMAIN hist :
        (hist[i].opcode = OP_TERM /\ i < j) => hist[j].run # hist[i].run

\* C22: TERM sets PC = UINT64_MAX and changes nothing else, and the run then
\* returns with term = ERR_OK without dispatching another instruction; a run
\* whose PC is size(code) returns with term = ERR_OK as well
C22_TermHaltsCleanly ==
    /\ []TermIsLast
    /\ [][TermStep /\ TermReturns /\ EndOfCodeReturns]_vars

\* C22 witness: a TERM that had an instruction after it and instructions left
\* in the limit has ended the run with term = ERR_OK
C22_Witness ==
    /\ pc = "returned"
    /\ Len(hist) > 0
    /\ IsCurrent(Len(hist))
    /\ Last.opcode = OP_TERM
    /\ Last.at + 1 < Len(code)
    /\ count < limit
    /\ PC = UINT64_MAX
    /\ term = ERR_OK

(***************************************************************************)
(* VPUSH                                                                   *)
(***************************************************************************)
\* the value of the short operand with control byte b on the image mem:
\* its low 6 bits, or with REG_PTR the cell they name
ShortValue(mem, b) ==
    IF b >= REG_PTR THEN Cell(mem, b % SHORT_VAL) ELSE FromNat(b % SHORT_VAL)

OperandBytes(q) ==
    IF (code[q + 1] \div SHORT_VAL) % 2 = 1 THEN 1 ELSE 1 + (code[q + 1] % SHORT_VAL)

\* the opcodes that decode inline operands only and assign PC nowhere else
\* (through a destination operand they can: see Straight)
InlineOnly ==
    (OP_NOP .. OP_ORL) \ { OP_NOP, OP_TERM, OP_JMP, OP_HOST, OP_CALL, OP_RET, OP_JF, OP_JT }

\* entry e is an instruction decoded without a fault that hands out no
\* reference to io[0]
Straight(e) == RanClean(e) /\ 0 \notin e.touched

\* C24: an instruction with one inline operand leaves PC after its opcode
\* byte and the operand's bytes, one with two after the bytes of both; JMP
\* and CALL take their target from the 2 bytes after the opcode as they are
\* (PC is their 16-bit value) and the PC a CALL saves is the offset after
\* those 2 bytes; the next instruction of the run is fetched at that PC
C24_DecodingAdvancesPC ==
    \A i \in DOMAIN hist :
        LET e  == hist[i]
            q1 == e.at + 1
            q2 == q1 + OperandBytes(q1)
        IN  /\ (e.opcode \in InlineOnly /\ Straight(e))
                => /\ Form(e.opcode)[1] = 1
                        => Cell(After(i).io, 0) = FromNat(q1 + OperandBytes(q1))
                   /\ Form(e.opcode)[1] = 2
                        => Cell(After(i).io, 0) = FromNat(q2 + OperandBytes(q2))
                   /\ (i < Len(hist) /\ hist[i + 1].run = e.run)
                        => Cell(After(i).io, 0) = FromNat(hist[i + 1].at)
            /\ (e.opcode \in { OP_JMP, OP_CALL } /\ RanClean(e))
                => /\ Cell(After(i).io, 0) = AddressAt(q1)
                   /\ e.ops = << AddressAt(q1) >>
                   /\ (e.opcode = OP_CALL /\ i = Len(hist))
                        => context[Len(context)][0] = FromNat(q1 + 2)

\* C24 witness: an instruction with a literal of 2 and a literal of 8 value
\* bytes has left PC 13 bytes after its opcode byte
C24_Witness ==
    /\ Len(hist) > 0
    /\ Last.opcode \in InlineOnly
    /\ Straight(Last)
    /\ Form(Last.opcode)[1] = 2
    /\ Last.at + 13 <= Len(code)
    /\ code[Last.at + 2] = 2
    /\ code[Last.at + 5] = 8
    /\ PC = FromNat(Last.at + 13)

\* C25: an instruction whose operand fetch would read at or past the end of
\* the code buffer (GVM::read assigns ERR_CODESIZE before any byte is read)
\* makes the run end with term = ERR_CODESIZE
C25_CodesizeReported == EndedAfter(ERR_CODESIZE) => term = ERR_CODESIZE

(***************************************************************************)
(* Opcode bytes without a case                                             *)
(***************************************************************************)
\* C26: a dispatched opcode byte that is no defined form (lower 7 bits above
\* 34, or the STACK bit on an opcode without a stack form) assigns
\* ERR_OPCODE to term and nothing else: it decodes no operand, hands out no
\* cell of io, and leaves io but for PC (the offset after the byte), the
\* operand stack and the call stack as they were; a defined form never
\* assigns ERR_OPCODE
C26_UndefinedFormsFault ==
    \A i \in DOMAIN hist :
        LET e == hist[i]
        IN  /\ Form(e.opcode) = << >>
                => /\ e.faults = << ERR_OPCODE >>
                   /\ IsCurrent(i) => term = ERR_OPCODE
                   /\ e.ops = << >> /\ e.touched = { } /\ ~e.crash /\ ~e.thrown
                   /\ After(i).io = MemSet(e.io, 0, FromNat(e.at + 1))
                   /\ After(i).stack = e.stack
                   /\ After(i).depth = e.depth
            /\ Form(e.opcode) # << >> => ERR_OPCODE \notin Codes(e)

\* C26 witness: PUSH with the STACK bit, on a non-empty operand stack, has
\* ended the run with ERR_OPCODE
C26_Witness ==
    /\ pc = "returned"
    /\ Len(hist) > 0
    /\ IsCurrent(Len(hist))
    /\ Last.opcode = OP_PUSH + STACK
    /\ Last.stack # << >>
    /\ term = ERR_OPCODE
    /\ PC = FromNat(Last.at + 1)

(***************************************************************************)
(* The lexer's unary operators                                             *)
(***************************************************************************)
\* exprToTokens is at character c of the expression
AtChar(c) == xpc = "exprToTokens" /\ pos <= Len(expr) /\ expr[pos] = c

\* there is no token before, or the last one is an operator or a left paren
NoOperandBefore ==
    tokens = << >> \/ tokens[Len(tokens)].type \in { "Operator", "LeftParen" }

\* the step of exprToTokens adds the one-character operator token c
Lexes(c, precedence, unary) ==
    /\ tokens' = Append(tokens, [type |-> "Operator", str |-> << c >>,
                                 precedence |-> precedence, rightAssociative |-> FALSE,
                                 unary |-> unary])
    /\ xpc' = "exprToTokens"

\* the step of exprToTokens throws std::runtime_error(msg)
Rejects(msg) == xpc' = "thrown" /\ what' = msg /\ tokens' = tokens

\* C27, ~ and ! (not the ! of !=): unary of precedence 11 where no operand
\* is before, an error elsewhere
UnaryOnly(c) ==
    (AtChar(c) /\ (pos = Len(expr) \/ c = "~" \/ expr[pos + 1] # "="))
        => IF NoOperandBefore THEN Lexes(c, 11, TRUE)
           ELSE Rejects("ERROR: " \o c \o " is not a binary operator")

\* C27, -: an error where no operand is before, binary of precedence 9
\* elsewhere
BinaryOnly ==
    AtChar("-")
        => IF NoOperandBefore THEN Rejects("ERROR: - is not a unary operator")
           ELSE Lexes("-", 9, FALSE)

\* C27: with no token before, or after an operator or a left paren, ~ and !
\* are lexed as unary operators of precedence 11 and - is rejected with
\* "- is not a unary operator"; after any other token - is lexed as the
\* binary operator of precedence 9 and ~ and ! are rejected
C27_UnaryFromPrecedingToken ==
    [][UnaryOnly("~") /\ UnaryOnly("!") /\ BinaryOnly]_vars

\* C27 witness: the tokens hold a unary ~ lexed after an operator and a
\* binary - lexed after a number
C27_Witness ==
    /\ xpc # "exprToTokens"
    /\ \E i \in 2 .. Len(tokens) :
           /\ tokens[i].str = << "~" >> /\ tokens[i].unary /\ tokens[i].precedence = 11
           /\ tokens[i - 1].type = "Operator"
    /\ \E i \in 2 .. Len(tokens) :
           /\ tokens[i].str = << "-" >> /\ ~tokens[i].unary /\ tokens[i].precedence = 9
           /\ tokens[i - 1].type = "Number"

(***************************************************************************)
(* Precedence and associativity of the postfix order                       *)
(***************************************************************************)
\* the types and the lexemes of the tokens of the expression
TokenTypes == [i \in DOMAIN tokens |-> tokens[i].type]

Lexeme(i) == tokens[i].str

\* the precedence of the table for the binary operator with lexeme str
TablePrecedence(str) == (CHOOSE row \in OperatorTable : row[1] = str)[3]

\* token i is an operand
OperandAt(i) == TokenTypes[i] \in { "Number", "Register" }

\* the default expression of src/expr.cpp
DefaultExpression ==
    << "8", "8", " ", "+", " ", "~", "@", "9", "9", "+", "4", "*", "2", "/", "(",
       "6", "-", "5", ")", "*", "2", "*", "3" >>

\* C28: a o1 b o2 c yields the postfix a b o1 c o2 when the table gives o1
\* at least the precedence of o2 and a b c o2 o1 when it gives it less;
\* (a o1 b) o2 c yields a b o1 c o2 and a o1 (b o2 c) yields a b c o2 o1
\* whatever the precedences; the default expression compiles to PUSH 88,
\* PUSH @99, NEG, ADD, PUSH 4, PUSH 2, MUL, PUSH 6, PUSH 5, SUB, DIV, PUSH 2,
\* MUL, PUSH 3, MUL, ADD
C28_PostfixRespectsPrecedence ==
    /\ (/\ YardReturned
        /\ Len(tokens) = 5
        /\ OperandAt(1) /\ OperandAt(3) /\ OperandAt(5)
        /\ TokenTypes[2] = "Operator" /\ TokenTypes[4] = "Operator")
            => Postfix = IF TablePrecedence(Lexeme(2)) >= TablePrecedence(Lexeme(4))
                         THEN << Lexeme(1), Lexeme(3), Lexeme(2), Lexeme(5), Lexeme(4) >>
                         ELSE << Lexeme(1), Lexeme(3), Lexeme(5), Lexeme(4), Lexeme(2) >>
    /\ (/\ YardReturned
        /\ Len(tokens) = 7
        /\ TokenTypes = << "LeftParen", TokenTypes[2], "Operator", TokenTypes[4],
                           "RightParen", "Operator", TokenTypes[7] >>
        /\ OperandAt(2) /\ OperandAt(4) /\ OperandAt(7))
            => Postfix = << Lexeme(2), Lexeme(4), Lexeme(3), Lexeme(7), Lexeme(6) >>
    /\ (/\ YardReturned
        /\ Len(tokens) = 7
        /\ TokenTypes = << TokenTypes[1], "Operator", "LeftParen", TokenTypes[4],
                           "Operator", TokenTypes[6], "RightParen" >>
        /\ OperandAt(1) /\ OperandAt(4) /\ OperandAt(6))
            => Postfix = << Lexeme(1), Lexeme(4), Lexeme(6), Lexeme(5), Lexeme(2) >>
    /\ (xpc = "returned" /\ expr = DefaultExpression)
            => ossg = << << "PUSH", "8", "8" >>, << "PUSH", "@", "9", "9" >>, << "NEG" >>,
                         << "ADD" >>, << "PUSH", "4" >>, << "PUSH", "2" >>, << "MUL" >>,
                         << "PUSH", "6" >>, << "PUSH", "5" >>, << "SUB" >>, << "DIV" >>,
                         << "PUSH", "2" >>, << "MUL" >>, << "PUSH", "3" >>, << "MUL" >>,
                         << "ADD" >> >>

(***************************************************************************)
(* The disassembler and the VM on the same bytes                           *)
(***************************************************************************)
\* gdis lists one instruction: the one at offset gpc, up to offset gpc'
Lists == gstate = "disassemble" /\ gstate' = "disassemble" /\ gpc' # gpc

\* the opcodes whose register form, and whose stack form if they have one,
\* leaves PC after the bytes the instruction consumed (unless a destination
\* operand names io[0])
FallsThrough(o) == o % STACK \in InlineOnly \cup { OP_NOP }

\* what the execution e of the instruction at offset at says on the bytes
\* the instruction consumed, for the end next of its listing: the PC it left
\* is next when it does not jump; the target it read is in the 2 bytes
\* before next when it does; TERM and HOST consume their opcode byte
SameBoundary(e, after, next) ==
    /\ (FallsThrough(e.opcode) /\ 0 \notin e.touched) => after = FromNat(next)
    /\ (e.opcode \in CondJumps /\ ~Taken(e)) => after = FromNat(next)
    /\ (e.opcode \in CondJumps /\ Taken(e))
            => Len(e.ops) = 2 /\ next >= e.at + 3 /\ e.ops[2] = AddressAt(next - 2)
    /\ e.opcode \in { OP_JMP, OP_CALL }
            => next = e.at + 3 /\ e.ops = << AddressAt(next - 2) >>
    /\ e.opcode \in { OP_TERM, OP_HOST } => next = e.at + 1

C30_FirstFaultReported ==
    \A i \in DOMAIN hist :
        hist[i].faults # << >>
            => /\ \A k \in DOMAIN hist[i].faults : hist[i].faults[k] = hist[i].faults[1]
               /\ IsCurrent(i) => term = hist[i].faults[1]

(***************************************************************************)
(* What a faulting instruction leaves behind                               *)
(***************************************************************************)
\* the codes get, pop, read and the default case assign
AccessFaults == { ERR_SEGFAULT, ERR_UNDERFLOW, ERR_CODESIZE, ERR_OPCODE }

\* C31: an instruction that assigns ERR_SEGFAULT, ERR_UNDERFLOW, ERR_CODESIZE
\* or ERR_OPCODE to term leaves every cell io[1..1023] and the call stack as
\* they were, and the operand stack as it was but for operands popped off
\* its top: nothing is pushed
C31_FaultsHaveNoEffect ==
    \A i \in DOMAIN hist :
        (Codes(hist[i]) \cap AccessFaults # {} /\ ~hist[i].crash /\ ~hist[i].thrown)
            => /\ \A k \in 1 .. IO_SIZE - 1 : Cell(After(i).io, k) = Cell(hist[i].io, k)
               /\ After(i).depth = hist[i].depth
               /\ \E n \in 0 .. 2 : After(i).stack = Without(hist[i].stack, n)

(***************************************************************************)
(* Calls of run that continue one another                                  *)
(***************************************************************************)
\* the host has run its second machine and copied what it left
RanAgain == host.first >= 2 /\ Len(host.seen) = host.first + 1

\* every call on the first machine but the last ended with ERR_OPLIMIT
StoppedByLimit == \A r \in 1 .. host.first - 1 : host.seen[r].term = ERR_OPLIMIT

\* a call of run starts on the image, the operand stack and the call stack
\* it finds
RunKeeps == (pc # "loop" /\ pc' = "loop") => UNCHANGED << io, stack, context, hist >>

\* C32: run resets neither PC nor the stacks, and when every call run(L1),
\* run(L2) but the last ended with ERR_OPLIMIT, the last one leaves the memory
\* image, the operand stack, the call stack and term that the single call
\* run(L1 + L2) leaves on a machine started in the same state
C32_RunResumable ==
    /\ [][RunKeeps]_vars
    /\ []((RanAgain /\ StoppedByLimit) => host.seen[host.first + 1] = host.seen[host.first])

\* C32 witness: a first call stopped by the limit after some instructions, a
\* second call that dispatched more and halted with ERR_OK, and the single
\* call on the second machine, which dispatched instructions too
C32_Witness ==
    /\ RanAgain
    /\ host.first = 2
    /\ host.seen[1].term = ERR_OPLIMIT
    /\ host.seen[2].term = ERR_OK
    /\ \E i, j, k \in DOMAIN hist : hist[i].run = 1 /\ hist[j].run = 2 /\ hist[k].run = 3

(***************************************************************************)
(* The opcode bytes gdis does not know and those the VM rejects            *)
(***************************************************************************)
\* "L" << std::setfill('0') << std::setw(5) << n << ": ", for n < 100
Label(n) == "L" \o (IF n < 10 THEN "0000" ELSE "000") \o ToString(n) \o ": "

\* gdis writes one line of its listing for the byte at pc
WritesLine == gstate = "disassemble" /\ gpc < Len(code) /\ cout' # cout

\* the line is UNKNOWN_OPCODE_<n>
WritesUnknown ==
    \E n \in 0 .. ByteMod - 1 :
        cout' = cout \o Label(gpc) \o "UNKNOWN_OPCODE_" \o ToString(n) \o "\n"

\* C33: gdis renders the byte at an offset as UNKNOWN_OPCODE_<n> exactly when
\* the VM that dispatched the byte at that offset assigned ERR_OPCODE; the
\* STACK bit on an opcode without a stack form is not rendered as the plain
\* instruction
C33_UnknownExactlyOnFault ==
    [][WritesLine => \A i \in DOMAIN hist :
                         hist[i].at = gpc
                             => (WritesUnknown <=> ERR_OPCODE \in Codes(hist[i]))]_vars

(***************************************************************************)
(* Chains of prefix operators                                              *)
(***************************************************************************)
\* the expression is n operators ~ or ! followed by one number or register
UnaryChain(n) ==
    /\ n \in 1 .. Len(expr) - 1
    /\ \A i \in 1 .. n : expr[i] \in { "~", "!" }
    /\ LET body   == SubSeq(expr, n + 1, Len(expr))
           digits == IF body[1] = "@" THEN Tail(body) ELSE body
       IN  /\ digits # << >>
           /\ \A j \in DOMAIN digits : digits[j] \in { DigitChars[d] : d \in DOMAIN DigitChars }

\* PUSH of the operand, then the mnemonics of the n operators from the
\* innermost (rightmost) to the outermost
ChainProgram(n) ==
    << << "PUSH" >> \o SubSeq(expr, n + 1, Len(expr)) >>
    \o [i \in 1 .. n |-> << IF expr[n + 1 - i] = "~" THEN "NEG" ELSE "NOT" >>]

\* C34: for a chain of ~ and ! in front of an operand x, the postfix queue
\* holds x first and then the operators from the innermost to the outermost,
\* no operator is taken off the queue before its operand was pushed, and
\* the program returned is PUSH x followed by their mnemonics in that order
\* (!~5 gives PUSH 5, NEG, NOT)
C34_UnaryInnermostFirst ==
    \A n \in 1 .. Len(expr) :
        UnaryChain(n)
            => /\ ~ub /\ xpc \notin { "thrown", "aborted" }
               /\ YardReturned
                    => /\ Len(queue) = n + 1
                       /\ queue[1].type \in { "Number", "Register" }
                       /\ \A i \in 1 .. n : Postfix[i + 1] = << expr[n + 1 - i] >>
               /\ xpc = "returned" => ossg = ChainProgram(n)

=============================================================================
